---- MODULE Spec2Model ----
(***************************************************************************)
(* A model of sgmock: the in-memory mock of the Shotgun entity database.   *)
(*                                                                         *)
(* The state is that of one sgmock.Shotgun object (src/sgmock/shotgun.py): *)
(* the live map _store, the retired map _deleted, the per-type id counters *)
(* _ids, and the clock that datetime.utcnow() reads.  Every public method  *)
(* (create, update, delete, revive, find, find_one, batch,                 *)
(* sgmock_json_dump, sgmock_json_load) is one action; the clock advances   *)
(* between calls.                                                          *)
(*                                                                         *)
(* The object is the one built by Shotgun(generate_events=False)           *)
(* (shotgun.py:43): the module sgmock.events that the methods call when    *)
(* that flag is set is not part of the sources modelled here.              *)
(*                                                                         *)
(* The code is Python 2 (dict.iterkeys at shotgun.py:239, dict.iteritems   *)
(* at fixture.py:47): a dict there is a hash table without insertion       *)
(* order.  An int hashes to itself and the smallest table has 8 slots, so  *)
(* a dict keyed by ids below 8 is iterated in ascending id order.          *)
(***************************************************************************)
EXTENDS Integers, Sequences, FiniteSets, TLC

VARIABLES
    store,      \* self._store  : type -> (id -> entity), the live map
    deleted,    \* self._deleted: type -> (id -> entity), the retired map
    ids,        \* self._ids    : type -> last id handed out
    now,        \* the value datetime.utcnow() returns
    inserted,   \* history: per type, the live ids in the order of their insertion
    writes,     \* history: the number of calls that changed the database
    last,       \* history: the last call, its arguments, its result or error, and
                \* whether it changed the database
    dumped      \* the file sgmock_json_dump wrote, with (history) the live map
                \* it was written from; <<>> while there is none

vars == <<store, deleted, ids, now, inserted, writes, last, dumped>>

(***************************************************************************)
(* Bounds of the model.                                                    *)
(***************************************************************************)
\* ids (caller-supplied or generated) stay in 1..MaxId
MaxId == 2
\* the clock runs from 0 to MaxTime
MaxTime == 1
\* at most MaxWrites calls change the database
MaxWrites == 3
\* the paging machine holds at most MaxRecords records
MaxRecords == 5

Types == {"Shot", "Task"}

(***************************************************************************)
(* Python values.  Every value carries its Python type in k, so that       *)
(* isinstance tests and comparisons between values of different types can  *)
(* be modelled; v is only ever compared between values of the same k.      *)
(***************************************************************************)
PyNone == [k |-> "None", v |-> 0]
PyInt(n) == [k |-> "int", v |-> n]
PyStr(s) == [k |-> "str", v |-> s]
PyBool(b) == [k |-> "bool", v |-> b]
PyDateTime(t) == [k |-> "datetime", v |-> t]
PyDate(n) == [k |-> "date", v |-> n]
PyDict(d) == [k |-> "dict", v |-> d]
PyList(l) == [k |-> "list", v |-> l]

\* Python's ==
PyEq(a, b) == a.k = b.k /\ a.v = b.v

\* bool(x) for the values the model holds
Truthy(x) ==
    CASE x.k = "None" -> FALSE
      [] x.k = "int"  -> x.v # 0
      [] x.k = "str"  -> x.v # ""
      [] x.k = "bool" -> x.v
      [] x.k = "dict" -> DOMAIN x.v # {}
      [] x.k = "list" -> x.v # <<>>
      [] OTHER        -> TRUE

\* the empty dict
EmptyDict == [x \in {} |-> PyNone]

\* d[key] = val
DictSet(d, key, val) ==
    [x \in DOMAIN d \cup {key} |-> IF x = key THEN val ELSE d[x]]

\* d.update(e)
DictUpdate(d, e) ==
    [x \in DOMAIN d \cup DOMAIN e |-> IF x \in DOMAIN e THEN e[x] ELSE d[x]]

\* d.pop(key, None): the dict that is left
DictPop(d, key) == [x \in DOMAIN d \ {key} |-> d[x]]

\* d.get(key)
DictGet(d, key) == IF key \in DOMAIN d THEN d[key] ELSE PyNone

Min(a, b) == IF a < b THEN a ELSE b
Max(a, b) == IF a > b THEN a ELSE b

\* The keys of a Python 2 dict keyed by small ints, in iteration order.
RECURSIVE KeyOrder(_)
KeyOrder(S) ==
    IF S = {} THEN <<>>
    ELSE LET m == CHOOSE x \in S : \A y \in S : x <= y
         IN  <<m>> \o KeyOrder(S \ {m})

\* dict.values() of an id -> entity map
Values(m) == LET ks == KeyOrder(DOMAIN m) IN [i \in 1..Len(ks) |-> m[ks[i]]]

\* the sequence s without the element x
RECURSIVE SeqRemove(_, _)
SeqRemove(s, x) ==
    IF s = <<>> THEN <<>>
    ELSE IF Head(s) = x THEN SeqRemove(Tail(s), x)
    ELSE <<Head(s)>> \o SeqRemove(Tail(s), x)


\* a set of dict keys as a sequence (the order is immaterial to its users)
RECURSIVE SetToSeq(_)
SetToSeq(S) ==
    IF S = {} THEN <<>>
    ELSE LET x == CHOOSE y \in S : TRUE IN <<x>> \o SetToSeq(S \ {x})

\* the characters (code points) of the strings in use
Chars(s) ==
    CASE s = "" -> <<>>
      [] s = "a" -> <<97>>
      [] s = "ab" -> <<97, 98>>
      [] s = "b" -> <<98>>
      [] s = "Shot" -> <<83, 104, 111, 116>>
      [] s = "Task" -> <<84, 97, 115, 107>>
      [] s = "code" -> <<99, 111, 100, 101>>
      [] s = "2020-01-01T00:00:00Z" -> <<50, 48, 50, 48, 45, 48, 49, 45, 48, 49, 84, 48, 48, 58, 48, 48, 58, 48, 48, 90>>
      [] s = "2020-01-01T00:00:01Z" -> <<50, 48, 50, 48, 45, 48, 49, 45, 48, 49, 84, 48, 48, 58, 48, 48, 58, 48, 49, 90>>
      [] s = "2020-01-01T00:00:02Z" -> <<50, 48, 50, 48, 45, 48, 49, 45, 48, 49, 84, 48, 48, 58, 48, 48, 58, 48, 50, 90>>
      [] s = "2020-01-01T00:00:03Z" -> <<50, 48, 50, 48, 45, 48, 49, 45, 48, 49, 84, 48, 48, 58, 48, 48, 58, 48, 51, 90>>
      [] s = "2020-01-01T00:00:00.500000Z" -> <<50, 48, 50, 48, 45, 48, 49, 45, 48, 49, 84, 48, 48, 58, 48, 48, 58, 48, 48, 46, 53, 48, 48, 48, 48, 48, 90>>
      [] s = "2020-01-01T00:00:01.500000Z" -> <<50, 48, 50, 48, 45, 48, 49, 45, 48, 49, 84, 48, 48, 58, 48, 48, 58, 48, 49, 46, 53, 48, 48, 48, 48, 48, 90>>
      [] s = "2020-01-01" -> <<50, 48, 50, 48, 45, 48, 49, 45, 48, 49>>
      [] s = "2020-01-02" -> <<50, 48, 50, 48, 45, 48, 49, 45, 48, 50>>
      [] s = "2020-01-01T00:00:00" -> <<50, 48, 50, 48, 45, 48, 49, 45, 48, 49, 84, 48, 48, 58, 48, 48, 58, 48, 48>>
      [] s = "2020-13-01" -> <<50, 48, 50, 48, 45, 49, 51, 45, 48, 49>>
      [] s = "name" -> <<110, 97, 109, 101>>
      [] s = "x" -> <<120>>
      [] s = "id" -> <<105, 100>>
      [] s = "type" -> <<116, 121, 112, 101>>
      [] s = "created_at" -> <<99, 114, 101, 97, 116, 101, 100, 95, 97, 116>>
      [] s = "updated_at" -> <<117, 112, 100, 97, 116, 101, 100, 95, 97, 116>>
      [] s = "entity" -> <<101, 110, 116, 105, 116, 121>>
      [] s = "assets" -> <<97, 115, 115, 101, 116, 115>>
      [] s = "meta" -> <<109, 101, 116, 97>>
      [] s = "content" -> <<99, 111, 110, 116, 101, 110, 116>>
      [] s = "parent" -> <<112, 97, 114, 101, 110, 116>>
      [] s = "missing" -> <<109, 105, 115, 115, 105, 110, 103>>
      [] s = "more" -> <<109, 111, 114, 101>>
      [] s = "entity.Shot.code" -> <<101, 110, 116, 105, 116, 121, 46, 83, 104, 111, 116, 46, 99, 111, 100, 101>>
      [] s = "entity.Task.code" -> <<101, 110, 116, 105, 116, 121, 46, 84, 97, 115, 107, 46, 99, 111, 100, 101>>
      [] s = "entity.Shot.parent" -> <<101, 110, 116, 105, 116, 121, 46, 83, 104, 111, 116, 46, 112, 97, 114, 101, 110, 116>>
      [] s = "entity.Shot.missing" -> <<101, 110, 116, 105, 116, 121, 46, 83, 104, 111, 116, 46, 109, 105, 115, 115, 105, 110, 103>>
      [] s = "entity.Shot.code.more" -> <<101, 110, 116, 105, 116, 121, 46, 83, 104, 111, 116, 46, 99, 111, 100, 101, 46, 109, 111, 114, 101>>
      [] s = "entity.Shot" -> <<101, 110, 116, 105, 116, 121, 46, 83, 104, 111, 116>>
      [] s = "entity..code" -> <<101, 110, 116, 105, 116, 121, 46, 46, 99, 111, 100, 101>>
      [] s = "meta.Shot.code" -> <<109, 101, 116, 97, 46, 83, 104, 111, 116, 46, 99, 111, 100, 101>>
      [] s = "content.Shot.code" -> <<99, 111, 110, 116, 101, 110, 116, 46, 83, 104, 111, 116, 46, 99, 111, 100, 101>>
      [] s = "missing.Shot.code" -> <<109, 105, 115, 115, 105, 110, 103, 46, 83, 104, 111, 116, 46, 99, 111, 100, 101>>
      [] s = "assets.Shot.code" -> <<97, 115, 115, 101, 116, 115, 46, 83, 104, 111, 116, 46, 99, 111, 100, 101>>

(***************************************************************************)
(* The database: db = [store, deleted, ids, inserted, now].  The methods    *)
(* are operators from a database (and arguments) to the database they     *)
(* leave, the value they return and the error they raise ("" when none).   *)
(***************************************************************************)
\* collections.defaultdict(dict) / defaultdict(int): every type is present
EmptyDb ==
    [store    |-> [t \in Types |-> EmptyDict],
     deleted  |-> [t \in Types |-> EmptyDict],
     ids      |-> [t \in Types |-> 0],
     inserted |-> [t \in Types |-> <<>>],
     now      |-> 0]

\* utils.is_entity: a mapping with both type and id
is_entity(x) == x.k = "dict" /\ "type" \in DOMAIN x.v /\ "id" \in DOMAIN x.v

\* utils.minimize: the mapping reduced to type and id
minimize(e) == [type |-> e["type"], id |-> e["id"]]

\* the id -> entity map of a type in a defaultdict(dict)
MapOf(m, type_) ==
    IF type_.k = "str" /\ type_.v \in Types THEN m[type_.v] ELSE EmptyDict

\* key in m, for an id -> entity map and a Python value
HasId(m, id_) == id_.k = "int" /\ id_.v \in DOMAIN m

\* Shotgun._entity_exists, for a mapping that has type and id
entity_exists(db, entity) == HasId(MapOf(db.store, entity["type"]), entity["id"])

\* a resolution that knows the live entities only
resolve_link_live(db, link) ==
    LET live == MapOf(db.store, link["type"])
    IN  IF HasId(live, link["id"]) THEN PyDict(live[link["id"].v]) ELSE PyNone

\* Shotgun._resolve_link: the live entity, or else the retired one, or else None
resolve_link(db, link) ==
    LET live == MapOf(db.store, link["type"])
        dead == MapOf(db.deleted, link["type"])
    IN  IF HasId(live, link["id"]) THEN PyDict(live[link["id"].v])
        ELSE IF HasId(dead, link["id"]) THEN PyDict(dead[link["id"].v])
        ELSE PyNone

\* the characters \w matches: the letters, the digits and the underscore
WordChar(c) == c \in (48..57) \cup (65..90) \cup (97..122) \cup {95}

\* the position after the longest run of word characters of cs that starts at i
WordEnd(cs, i) ==
    IF i > Len(cs) THEN i
    ELSE CHOOSE j \in i..(Len(cs) + 1) :
            /\ \A k \in i..(j - 1) : WordChar(cs[k])
            /\ (j > Len(cs) \/ ~WordChar(cs[j]))

\* the position after the longest run of cs without a dot, the character 46,
\* that starts at i
FieldEnd(cs, i) ==
    IF i > Len(cs) THEN i
    ELSE CHOOSE j \in i..(Len(cs) + 1) :
            /\ \A k \in i..(j - 1) : cs[k] # 46
            /\ (j > Len(cs) \/ cs[j] = 46)

\* the second group (\w+) ends at b, where a dot is, and the third ([^.]+)
\* is the run without a dot after it
group2(cs, a, b) ==
    IF b > a + 1 /\ b <= Len(cs) /\ cs[b] = 46 /\ FieldEnd(cs, b + 1) > b + 1
    THEN <<SubSeq(cs, 1, a - 1), SubSeq(cs, a + 1, b - 1),
           SubSeq(cs, b + 1, FieldEnd(cs, b + 1) - 1)>>
    ELSE <<>>

\* the first group (\w+) ends at a, where a dot is
group1(cs, a) ==
    IF a > 1 /\ a <= Len(cs) /\ cs[a] = 46 THEN group2(cs, a, WordEnd(cs, a + 1))
    ELSE <<>>

\* Shotgun._deep_lookup_re.match(field).groups(), <<>> when there is no match:
\* the three groups of ^(\w+)\.(\w+)\.([^.]+), whatever follows the third
deep_lookup_re(cs) == group1(cs, WordEnd(cs, 1))

\* field.split('.'): the part before the first dot and the parts of the rest
RECURSIVE split(_)
split(cs) ==
    IF FieldEnd(cs, 1) > Len(cs) THEN <<cs>>
    ELSE <<SubSeq(cs, 1, FieldEnd(cs, 1) - 1)>>
             \o split(SubSeq(cs, FieldEnd(cs, 1) + 1, Len(cs)))

\* the keys of a dict that are the string of characters cs (one at most)
KeysOf(d, cs) == {k \in DOMAIN d : Chars(k) = cs}

\* the result of a lookup: the value returned or the exception raised
Value(v) == [r |-> "value", v |-> v]
Error(e) == [r |-> e, v |-> PyNone]

\* linked.get(deep_field), linked the entity a link resolves to or None
deep_get(linked, deep_field) ==
    IF linked = PyNone THEN Error("AttributeError")
    ELSE IF KeysOf(linked.v, deep_field) = {} THEN Value(PyNone)
    ELSE Value(linked.v[CHOOSE k \in KeysOf(linked.v, deep_field) : TRUE])

\* the deep field of the entity that link, a value of the entity, names
deep_link(db, link, link_type, deep_field) ==
    IF link.k # "dict" THEN Error("KeyError")
    ELSE IF "type" \notin DOMAIN link.v THEN Error("KeyError")
    ELSE IF ~(link.v["type"].k = "str" /\ Chars(link.v["type"].v) = link_type)
        THEN Value(PyNone)
    ELSE IF "id" \notin DOMAIN link.v THEN Error("ShotgunError")
    ELSE IF link.v["id"].k \in {"dict", "list"} THEN Error("TypeError")
    ELSE deep_get(resolve_link(db, link.v), deep_field)

\* the second half of Shotgun._lookup_field: the deep field m of the entity,
\* m the groups local_field, link_type, deep_field of the match
deep_lookup(db, entity, m) ==
    IF \A k \in DOMAIN entity : Chars(k) # m[1] THEN Error("KeyError")
    ELSE deep_link(db, entity[CHOOSE k \in DOMAIN entity : Chars(k) = m[1]], m[2], m[3])

\* the first half of Shotgun._lookup_field for a field that is no key of the
\* entity: m the groups of the match, parts the field split at its dots
shallow_lookup(db, entity, m, parts) ==
    IF m # <<>> THEN deep_lookup(db, entity, m)
    ELSE IF \E i \in 1..Len(parts) : parts[i] = <<>> THEN Error("ShotgunError")
    ELSE IF Len(parts) > 1 THEN Value(PyNone)
    ELSE Error("KeyError")

\* Shotgun._lookup_field of an entity that is not empty: the value returned
\* or the exception raised
lookup_field(db, entity, field) ==
    IF field \in DOMAIN entity THEN Value(entity[field])
    ELSE shallow_lookup(db, entity, deep_lookup_re(Chars(field)), split(Chars(field)))


\* Shotgun._minimal_copy; entity is a dict value or None, fields a sequence
RECURSIVE minimal_copy(_, _, _)
RECURSIVE minimal_copy_fields(_, _, _, _)

\* a copy that is the entity with all it holds
minimal_copy_whole(db, entity, fields) ==
    IF ~Truthy(entity) THEN PyNone ELSE entity

\* what _minimal_copy puts in the field for the value v looked up
copy_value(db, v) ==
    IF is_entity(v) THEN minimal_copy(db, resolve_link(db, v.v), <<"name">>)
    ELSE IF v.k = "list"
    THEN PyList([i \in 1..Len(v.v) |->
                    IF is_entity(v.v[i]) THEN minimal_copy(db, v.v[i], <<>>)
                    ELSE v.v[i]])
    ELSE v

\* one round of the loop of _minimal_copy: got is the result of the lookup
\* of the first of the fields that are left; an exception other than
\* KeyError leaves _minimal_copy, here as a value of the kind "raise"
copy_field(db, entity, fields, minimal, got) ==
    IF got.r \notin {"value", "KeyError"} THEN [k |-> "raise", v |-> got.r]
    ELSE minimal_copy_fields(db, entity, Tail(fields),
             IF got.r = "KeyError" THEN minimal
             ELSE DictSet(minimal, Head(fields), copy_value(db, got.v)))

minimal_copy(db, entity, fields) ==
    IF ~Truthy(entity) THEN PyNone
    ELSE minimal_copy_fields(db, entity.v, fields, minimize(entity.v))

\* the loop of _minimal_copy over the fields that are left
minimal_copy_fields(db, entity, fields, minimal) ==
    IF fields = <<>> THEN PyDict(minimal)
    ELSE copy_field(db, entity, fields, minimal,
                    lookup_field(db, entity, Head(fields)))


\* Shotgun._reduce_links
RECURSIVE reduce_links(_, _)

\* a reduction that looks at the values of data and no deeper
reduce_links_shallow(db, data) ==
    IF data.k = "dict"
    THEN IF "type" \in DOMAIN data.v /\ "id" \in DOMAIN data.v
         THEN IF ~entity_exists(db, data.v) THEN PyNone
              ELSE minimal_copy(db, data, <<>>)
         ELSE PyDict([x \in DOMAIN data.v |->
                        IF is_entity(data.v[x]) THEN reduce_links(db, data.v[x])
                        ELSE data.v[x]])
    ELSE data

reduce_links(db, data) ==
    IF data.k = "dict"
    THEN IF "type" \in DOMAIN data.v /\ "id" \in DOMAIN data.v
         THEN IF ~entity_exists(db, data.v) THEN PyNone
              ELSE minimal_copy(db, data, <<>>)
         ELSE PyDict([x \in DOMAIN data.v |-> reduce_links(db, data.v[x])])
    ELSE IF data.k \in {"list", "tuple"}
    THEN PyList([i \in 1..Len(data.v) |-> reduce_links(db, data.v[i])])
    ELSE data


(***************************************************************************)
(* The methods.  A result is [db, ret, err]: the database left, the value  *)
(* returned and the exception raised ("" when the call returns).           *)
(***************************************************************************)
Returns(db, ret) == [db |-> db, ret |-> ret, err |-> ""]
Raises(db, err) == [db |-> db, ret |-> PyNone, err |-> err]

\* inserted[type_] after self._store[type_][id_] = entity
InsertKey(db, type_, id_) ==
    IF id_ \in DOMAIN db.store[type_] THEN db.inserted
    ELSE [db.inserted EXCEPT ![type_] = Append(@, id_)]

\* self._store[type_][id_] = entity
StorePut(db, type_, id_, entity) ==
    [db EXCEPT !.store[type_] = DictSet(@, id_, entity),
               !.inserted = InsertKey(db, type_, id_)]

\* datetime.datetime.utcnow()
utcnow(db) == PyDateTime(db.now)

\* an id test that looks at the retired entities instead of the live ones
IdInUse_retired(db, entity_type, data) ==
    "id" \in DOMAIN data /\ HasId(db.deleted[entity_type], data["id"])

\* 'id' in data and data['id'] in self._store[entity_type]
IdInUse(db, entity_type, data) ==
    "id" \in DOMAIN data /\ HasId(db.store[entity_type], data["id"])

\* an id index that follows the last id stored
NewIndex_last(newId, index) == newId

\* the id index after an entity with id newId is stored
NewIndex(newId, index) == Max(newId, index)

\* entity.update(data)
Merge(entity, data) == DictUpdate(entity, data)

\* Shotgun._create_or_update: [db, entity, err]; entity_id is None or an int
create_or_update(db, entity_type, entity_id, data) ==
    IF entity_id.k = "None"
    THEN IF IdInUse(db, entity_type, data)
         THEN [db |-> db, entity |-> EmptyDict, err |-> "ShotgunError"]
         ELSE LET newId == IF "id" \in DOMAIN data THEN data["id"].v
                           ELSE db.ids[entity_type] + 1
                  entity == [type |-> PyStr(entity_type), id |-> PyInt(newId),
                             created_at |-> utcnow(db)]
                  db1 == [StorePut(db, entity_type, newId, entity)
                            EXCEPT !.ids[entity_type] = NewIndex(newId, @)]
                  stamped == DictSet(entity, "updated_at", utcnow(db))
                  merged == Merge(stamped,
                                reduce_links(db1, PyDict(DictPop(data, "id"))).v)
              IN  [db |-> [db1 EXCEPT !.store[entity_type][newId] = merged],
                   entity |-> merged, err |-> ""]
    ELSE IF ~HasId(db.store[entity_type], entity_id)
         THEN [db |-> db, entity |-> EmptyDict, err |-> "KeyError"]
         ELSE LET stamped == DictSet(db.store[entity_type][entity_id.v],
                                     "updated_at", utcnow(db))
                  merged == Merge(stamped,
                                reduce_links(db, PyDict(DictPop(data, "id"))).v)
              IN  [db |-> [db EXCEPT !.store[entity_type][entity_id.v] = merged],
                   entity |-> merged, err |-> ""]

\* Shotgun.create
create(db, entity_type, data) ==
    LET r == create_or_update(db, entity_type, PyNone, data)
    IN  IF r.err # "" THEN Raises(db, r.err)
        ELSE Returns(r.db, minimal_copy(r.db, PyDict(r.entity), SetToSeq(DOMAIN data)))

\* an update that returns the whole entity
update_whole(db, entity_type, entity_id, data) ==
    LET r == create_or_update(db, entity_type, entity_id, data)
    IN  IF r.err # "" THEN Raises(db, r.err) ELSE Returns(r.db, PyDict(r.entity))

\* an update that creates the entity when the id is not live
update_upsert(db, entity_type, entity_id, data) ==
    LET r == IF HasId(db.store[entity_type], entity_id)
             THEN create_or_update(db, entity_type, entity_id, data)
             ELSE create_or_update(db, entity_type, PyNone,
                                   DictSet(data, "id", entity_id))
    IN  IF r.err # "" THEN Raises(db, r.err)
        ELSE Returns(r.db,
                 PyDict([x \in DOMAIN data \cup {"type", "id"} |-> r.entity[x]]))

\* Shotgun.update
update(db, entity_type, entity_id, data) ==
    LET r == create_or_update(db, entity_type, entity_id, data)
    IN  IF r.err # "" THEN Raises(db, r.err)
        ELSE Returns(r.db,
                 PyDict([x \in DOMAIN data \cup {"type", "id"} |-> r.entity[x]]))

\* a delete that copies the entity to the retired map and leaves it live
delete_copy(db, entity_type, entity_id) ==
    IF HasId(db.store[entity_type], entity_id)
    THEN Returns([db EXCEPT !.deleted[entity_type] =
                     DictSet(@, entity_id.v, db.store[entity_type][entity_id.v])],
                 PyBool(TRUE))
    ELSE Returns(db, PyBool(FALSE))

\* Shotgun.delete
delete(db, entity_type, entity_id) ==
    IF HasId(db.store[entity_type], entity_id)
    THEN LET entity == db.store[entity_type][entity_id.v]
         IN  Returns([db EXCEPT
                        !.store[entity_type] = DictPop(@, entity_id.v),
                        !.deleted[entity_type] = DictSet(@, entity_id.v, entity),
                        !.inserted[entity_type] = SeqRemove(@, entity_id.v)],
                     PyBool(TRUE))
    ELSE Returns(db, PyBool(FALSE))

\* Shotgun.revive
revive(db, entity_type, entity_id) ==
    IF HasId(db.deleted[entity_type], entity_id)
    THEN LET entity == db.deleted[entity_type][entity_id.v]
         IN  Returns([StorePut(db, entity_type, entity_id.v, entity) EXCEPT
                        !.deleted[entity_type] = DictPop(@, entity_id.v)],
                     PyBool(TRUE))
    ELSE Returns(db, PyBool(FALSE))


(***************************************************************************)
(* Filters (src/sgmock/filters.py).  A filter expression is a Python       *)
(* value in one of the wire forms; compiling it gives a predicate tree     *)
(* (the closures and filter objects of the code) or raises; applying the   *)
(* tree to an entity gives "T", "F" or the name of the exception raised.   *)
(***************************************************************************)
\* datetime.strftime('%Y-%m-%dT%H:%M:%SZ'): clock value n is n half seconds
\* past 2020-01-01T00:00:00, so an even n is a datetime of whole seconds and
\* an odd n one with 500000 microseconds, which the format leaves out
strftime(d) ==
    PyStr(CASE d.v \in {0, 1} -> "2020-01-01T00:00:00Z"
            [] d.v \in {2, 3} -> "2020-01-01T00:00:01Z")

\* match_types
match_types(a, b) ==
    IF a.k = "datetime" /\ b.k = "str" THEN <<strftime(a), b>>
    ELSE IF a.k = "str" /\ b.k = "datetime" THEN <<a, strftime(b)>>
    ELSE <<a, b>>

\* s < t for sequences of code points
RECURSIVE SeqLess(_, _)
SeqLess(s, t) ==
    IF t = <<>> THEN FALSE
    ELSE IF s = <<>> THEN TRUE
    ELSE IF Head(s) # Head(t) THEN Head(s) < Head(t)
    ELSE SeqLess(Tail(s), Tail(t))

\* the place of a value's type in Python 2's order of unlike types: None,
\* then the numbers, then the other types by their name
TypeRank(x) ==
    CASE x.k = "None" -> 0
      [] x.k = "int" -> 1
      [] x.k = "dict" -> 2
      [] x.k = "list" -> 3
      [] x.k = "str" -> 4

\* Python 2's a < b: "T", "F" or "TypeError".  None is below everything, a
\* number below every other type, a datetime compares with datetimes only.
PyLess(a, b) ==
    LET tf(x) == IF x THEN "T" ELSE "F"
    IN  CASE a.k = "datetime" /\ b.k = "datetime" -> tf(a.v < b.v)
          [] (a.k = "datetime") # (b.k = "datetime") -> "TypeError"
          [] a.k = "None" /\ b.k = "None" -> "F"
          [] a.k = "int" /\ b.k = "int" -> tf(a.v < b.v)
          [] a.k = "str" /\ b.k = "str" -> tf(SeqLess(Chars(a.v), Chars(b.v)))
          [] a.k # "datetime" /\ b.k # "datetime" /\ TypeRank(a) # TypeRank(b) ->
                tf(TypeRank(a) < TypeRank(b))

\* s.startswith(p) and s.endswith(p) for sequences of code points
IsPrefix(p, s) == Len(p) <= Len(s) /\ SubSeq(s, 1, Len(p)) = p
IsSuffix(p, s) == Len(p) <= Len(s) /\ SubSeq(s, Len(s) - Len(p) + 1, Len(s)) = p

\* the relations registered in _filters, and those that take one value
Relations ==
    {"is", "is_not", "in", "not_in", "less_than", "greater_than",
     "starts_with", "ends_with"}
ScalarRelations == Relations \ {"in", "not_in"}

\* entity.get(field) for a field given as a Python value
EntityGet(entity, field) ==
    IF field.k = "str" THEN DictGet(entity, field.v) ELSE PyNone

\* IsFilter.test
IsFilter(value, field) ==
    IF value.k = "dict"
    THEN IF Truthy(field) /\ field.k # "dict" THEN "AttributeError"
         ELSE LET f == IF Truthy(field) THEN field.v ELSE EmptyDict
              IN  IF PyEq(DictGet(value.v, "type"), DictGet(f, "type"))
                     /\ PyEq(DictGet(value.v, "id"), DictGet(f, "id"))
                  THEN "T" ELSE "F"
    ELSE IF PyEq(value, field) THEN "T" ELSE "F"

\* ScalarFilter.__call__ with the test of the relation
ScalarFilter(rel, value0, entity, field) ==
    LET m == match_types(value0, EntityGet(entity, field))
        value == m[1]
        other == m[2]
    IN  CASE rel = "is" -> IsFilter(value, other)
          [] rel = "less_than" -> PyLess(other, value)
          [] rel = "greater_than" -> PyLess(value, other)
          [] rel = "starts_with" ->
                IF other.k # "str" THEN "AttributeError"
                ELSE IF value.k # "str" THEN "TypeError"
                ELSE IF IsPrefix(Chars(value.v), Chars(other.v)) THEN "T" ELSE "F"
          [] rel = "ends_with" ->
                IF other.k # "str" THEN "AttributeError"
                ELSE IF value.k # "str" THEN "TypeError"
                ELSE IF IsSuffix(Chars(value.v), Chars(other.v)) THEN "T" ELSE "F"

\* InFilter.__call__
InFilter(values, entity, field) ==
    LET x == EntityGet(entity, field)
    IN  IF x.k \in {"dict", "list"} THEN "TypeError"
        ELSE IF \E i \in 1..Len(values) : PyEq(values[i], x) THEN "T" ELSE "F"

\* NotWrap: not filter(entity)
NotWrap(r) == IF r = "T" THEN "F" ELSE IF r = "F" THEN "T" ELSE r

\* a compiled leaf applied to an entity
ApplyLeaf(p, entity) ==
    CASE p.rel = "in" -> InFilter(p.values, entity, p.field)
      [] p.rel = "not_in" -> NotWrap(InFilter(p.values, entity, p.field))
      [] p.rel = "is_not" -> NotWrap(ScalarFilter("is", p.values[1], entity, p.field))
      [] OTHER -> ScalarFilter(p.rel, p.values[1], entity, p.field)

\* And / Or: all(f(entity) for f in filters), any(...), left to right
RECURSIVE Apply(_, _)
RECURSIVE ApplyAll(_, _)
RECURSIVE ApplyAny(_, _)
ApplyAll(kids, entity) ==
    IF kids = <<>> THEN "T"
    ELSE LET r == Apply(Head(kids), entity)
         IN  IF r = "T" THEN ApplyAll(Tail(kids), entity) ELSE r

\* an Or that holds when its last filter does
ApplyAny_last(kids, entity) ==
    IF kids = <<>> THEN "F" ELSE Apply(kids[Len(kids)], entity)

ApplyAny(kids, entity) ==
    IF kids = <<>> THEN "F"
    ELSE LET r == Apply(Head(kids), entity)
         IN  IF r = "F" THEN ApplyAny(Tail(kids), entity) ELSE r

\* the compiled predicate called on an entity
Apply(p, entity) ==
    CASE p.op = "And" -> ApplyAll(p.kids, entity)
      [] p.op = "Or" -> ApplyAny(p.kids, entity)
      [] p.op = "leaf" -> ApplyLeaf(p, entity)


\* the result of compiling: a predicate tree, or the exception raised
Compiled(p) == [err |-> "", pred |-> p]
CompileError(e) == [err |-> e, pred |-> [op |-> "none"]]

RECURSIVE compile_filters(_)
RECURSIVE compile_condition(_)
RECURSIVE compile_conditions(_)

\* a compilation that stops after the first condition of a list
compile_conditions_first(conditions) ==
    IF conditions = <<>> THEN [err |-> "", preds |-> <<>>]
    ELSE LET c == compile_condition(Head(conditions))
         IN  IF c.err # "" THEN [err |-> c.err, preds |-> <<>>]
             ELSE [err |-> "", preds |-> <<c.pred>>]

\* [_compile_condition(f) for f in conditions]: the first exception, or the trees
compile_conditions(conditions) ==
    IF conditions = <<>> THEN [err |-> "", preds |-> <<>>]
    ELSE LET c == compile_condition(Head(conditions))
         IN  IF c.err # "" THEN [err |-> c.err, preds |-> <<>>]
             ELSE LET rest == compile_conditions(Tail(conditions))
                  IN  IF rest.err # "" THEN rest
                      ELSE [err |-> "", preds |-> <<c.pred>> \o rest.preds]

\* _compile_filters
compile_filters(filters) ==
    LET isdict == filters.k = "dict"
        newstyle == isdict /\ "logical_operator" \in DOMAIN filters.v
                           /\ "conditions" \in DOMAIN filters.v
        op == IF newstyle THEN filters.v["logical_operator"]
              ELSE IF isdict /\ "filter_operator" \in DOMAIN filters.v
                   THEN filters.v["filter_operator"]
              ELSE PyStr("and")
    IN  IF isdict /\ ~newstyle /\ "filters" \notin DOMAIN filters.v
        THEN CompileError("KeyError")
        ELSE LET conditions == IF newstyle THEN filters.v["conditions"]
                               ELSE IF isdict THEN filters.v["filters"]
                               ELSE filters
                 op_cls == IF op.k = "str" /\ op.v \in {"any", "or"} THEN "Or"
                           ELSE IF op.k = "str" /\ op.v \in {"all", "and"} THEN "And"
                           ELSE "none"
             IN  IF op_cls = "none" THEN CompileError("ValueError")
                 ELSE IF conditions.k \notin {"list", "tuple"}
                 THEN CompileError("TypeError")
                 ELSE LET cs == compile_conditions(conditions.v)
                      IN  IF cs.err # "" THEN CompileError(cs.err)
                          ELSE Compiled([op |-> op_cls, kids |-> cs.preds])

\* a test that takes no condition for the packed form
Packed_never(c) == FALSE

\* len(condition) == 3 and isinstance(condition[2], (list, tuple))
Packed(c) == Len(c) = 3 /\ c[3].k \in {"list", "tuple"}

\* _compile_condition
compile_condition(condition) ==
    IF condition.k = "dict" /\ "filter_operator" \in DOMAIN condition.v
    THEN compile_filters(condition)
    ELSE IF condition.k = "dict"
            /\ {"relation", "path", "values"} \ DOMAIN condition.v # {}
    THEN CompileError("KeyError")
    ELSE IF condition.k \in {"list", "tuple"} /\ Len(condition.v) < 2
    THEN CompileError("IndexError")
    ELSE IF condition.k \notin {"dict", "list", "tuple"}
    THEN CompileError("TypeError")
    ELSE LET c == condition.v
             packed == condition.k # "dict" /\ Packed(c)
             field == IF condition.k = "dict" THEN c["path"] ELSE c[1]
             op_name == IF condition.k = "dict" THEN c["relation"] ELSE c[2]
             values == IF condition.k = "dict" THEN c["values"].v
                       ELSE IF packed THEN c[3].v
                       ELSE SubSeq(c, 3, Len(c))
         IN  IF ~(op_name.k = "str" /\ op_name.v \in Relations)
             THEN CompileError("MockError")
             ELSE IF op_name.v \in ScalarRelations /\ Len(values) # 1
             THEN CompileError("TypeError")
             ELSE IF op_name.v \notin ScalarRelations
                     /\ \E i \in 1..Len(values) : values[i].k \in {"dict", "list"}
             THEN CompileError("TypeError")
             ELSE Compiled([op |-> "leaf", rel |-> op_name.v,
                            field |-> field, values |-> values])


(***************************************************************************)
(* find and batch.                                                         *)
(***************************************************************************)
\* the largest limit find honours
LimitCap == 500

\* a filter_entities that lets every entity through
filter_entities_unfiltered(pred, entities, need) ==
    [err |-> "", found |-> SubSeq(entities, 1, Min(need, Len(entities)))]

\* filter_entities under itertools.islice(entities, start, stop): the entities
\* are tested in order until `need` of them have matched; the first exception
\* of the predicate ends the scan, after the entities found before it
RECURSIVE filter_entities(_, _, _)
filter_entities(pred, entities, need) ==
    IF entities = <<>> \/ need = 0 THEN [err |-> "", found |-> <<>>]
    ELSE LET r == Apply(pred, Head(entities))
         IN  IF r \notin {"T", "F"} THEN [err |-> r, found |-> <<>>]
             ELSE LET rest == filter_entities(pred, Tail(entities),
                                              IF r = "T" THEN need - 1 ELSE need)
                  IN  [err |-> rest.err,
                       found |-> IF r = "T" THEN <<Head(entities)>> \o rest.found
                                 ELSE rest.found]

\* a limit that takes one entity more than asked for
PageLimit_inclusive(limit) == Max(1, Min(LimitCap, limit)) + 1

\* the limit find uses
PageLimit(limit) == Max(1, Min(LimitCap, limit))

\* an offset that counts pages from zero
PageStart_zero(limit, page) == Max(0, page) * PageLimit(limit)

\* the offset of the first entity find returns
PageStart(limit, page) == Max(0, page - 1) * PageLimit(limit)

\* the end of Shotgun.find: copies are the minimal copies of the entities of
\* the page that the scan has found, err the exception that ended the scan;
\* the entities are copied as they are found, so that the first copy that
\* raises ends find before the scan is over
find_copies(db, copies, err) ==
    IF \E i \in DOMAIN copies : copies[i].k = "raise"
    THEN Raises(db, copies[CHOOSE i \in DOMAIN copies :
                               /\ copies[i].k = "raise"
                               /\ \A j \in 1..(i - 1) : copies[j].k # "raise"].v)
    ELSE IF err # "" THEN Raises(db, err)
    ELSE Returns(db, PyList(copies))

\* Shotgun.find; fields is a sequence of field names (fields or ())
find(db, entity_type, filters, fields, limit, retired_only, page) ==
    LET entities == Values(IF retired_only THEN db.deleted[entity_type]
                           ELSE db.store[entity_type])
        compiled == compile_filters(filters)
        start == PageStart(limit, page)
        stop == start + PageLimit(limit)
    IN  IF compiled.err # "" THEN Raises(db, compiled.err)
        ELSE LET scan == filter_entities(compiled.pred, entities, stop)
             IN  find_copies(db,
                     [i \in 1..(Len(scan.found) - start) |->
                         minimal_copy(db, PyDict(scan.found[start + i]), fields)],
                     scan.err)

\* a find_one that returns the last of the entities find returns
find_one_last(db, entity_type, filters, fields, retired_only) ==
    LET r == find(db, entity_type, filters, fields, LimitCap, retired_only, 1)
    IN  IF r.err # "" THEN r
        ELSE IF r.ret.v # <<>> THEN Returns(db, r.ret.v[Len(r.ret.v)])
        ELSE Returns(db, PyNone)

\* a find_one that stamps the entity it returns
find_one_touching(db, entity_type, filters, fields, retired_only) ==
    LET r == find(db, entity_type, filters, fields, 1, retired_only, 1)
        id_ == r.ret.v[1].v["id"].v
    IN  IF r.err # "" THEN r
        ELSE IF r.ret.v = <<>> THEN Returns(db, PyNone)
        ELSE IF retired_only
        THEN Returns([db EXCEPT !.deleted[entity_type][id_] =
                                    DictSet(@, "updated_at", utcnow(db))],
                     r.ret.v[1])
        ELSE Returns([db EXCEPT !.store[entity_type][id_] =
                                    DictSet(@, "updated_at", utcnow(db))],
                     r.ret.v[1])

\* Shotgun.find_one
find_one(db, entity_type, filters, fields, retired_only) ==
    LET r == find(db, entity_type, filters, fields, 1, retired_only, 1)
    IN  IF r.err # "" THEN r
        ELSE IF r.ret.v # <<>> THEN Returns(db, r.ret.v[1])
        ELSE Returns(db, PyNone)

\* Shotgun._batch_type_args
batch_type_args ==
    [create |-> <<"entity_type", "data">>,
     update |-> <<"entity_type", "entity_id", "data">>,
     delete |-> <<"entity_type", "entity_id">>]

\* the call getattr(self, type_) of one request of a batch, on its arguments
batch_call(db, request) ==
    CASE request["request_type"].v = "create" ->
            create(db, request["entity_type"].v, request["data"].v)
      [] request["request_type"].v = "update" ->
            update(db, request["entity_type"].v, request["entity_id"],
                   request["data"].v)
      [] request["request_type"].v = "delete" ->
            delete(db, request["entity_type"].v, request["entity_id"])

\* the loop of Shotgun.batch over the requests that are left
RECURSIVE batch_loop(_, _, _)
batch_loop(db, requests, responses) ==
    IF requests = <<>>
    THEN IF responses = <<>> THEN Raises(db, "ShotgunError")
         ELSE Returns(db, PyList(responses))
    ELSE LET request == Head(requests).v
         IN  IF "request_type" \notin DOMAIN request
             THEN Raises(db, "ShotgunError")
             ELSE IF ~(request["request_type"].k = "str"
                       /\ request["request_type"].v \in DOMAIN batch_type_args)
             THEN Raises(db, "ShotgunError")
             ELSE LET arg_names == batch_type_args[request["request_type"].v]
                  IN  IF \E i \in 1..Len(arg_names) : arg_names[i] \notin DOMAIN request
                      THEN Raises(db, "ShotgunError")
                      ELSE LET r == batch_call(db, request)
                           IN  IF r.err # "" THEN r
                               ELSE batch_loop(r.db, Tail(requests),
                                               Append(responses, r.ret))

\* a batch with transactions: a failed request rolls the earlier ones back
batch_atomic(db, requests) ==
    LET r == batch_loop(db, requests, <<>>)
    IN  IF r.err # "" THEN Raises(db, r.err) ELSE r

\* a batch that returns its responses last request first
batch_reversed(db, requests) ==
    LET r == batch_loop(db, requests, <<>>)
        n == Len(r.ret.v)
    IN  IF r.err # "" THEN r
        ELSE Returns(r.db, PyList([i \in 1..n |-> r.ret.v[n + 1 - i]]))

\* Shotgun.batch
batch(db, requests) == batch_loop(db, requests, <<>>)


(***************************************************************************)
(* sgmock_json_dump and sgmock_json_load.  A document is what json.load    *)
(* gives for the text json.dump wrote: a mapping from type to a mapping    *)
(* from the id as a string to the entity, its values those of JSON.        *)
(***************************************************************************)
\* str(id) of an id, the key json.dump writes for it
IdKeys == <<"1", "2", "3", "4", "5", "6", "7">>
IdKey(i) == IdKeys[i]

\* int(sid) of such a key
IntOfKey(sid) == CHOOSE i \in 1..Len(IdKeys) : IdKeys[i] = sid

\* serialize: datetime.isoformat() + 'Z', which has a fraction only when
\* the microseconds are not 0, and date.isoformat(); day n is n days past
\* 2020-01-01
serialize(value) ==
    IF value.k = "datetime"
    THEN PyStr(CASE value.v = 0 -> "2020-01-01T00:00:00Z"
                 [] value.v = 1 -> "2020-01-01T00:00:00.500000Z"
                 [] value.v = 2 -> "2020-01-01T00:00:01Z"
                 [] value.v = 3 -> "2020-01-01T00:00:01.500000Z")
    ELSE PyStr(CASE value.v = 0 -> "2020-01-01"
                 [] value.v = 1 -> "2020-01-02")

\* json.dump followed by json.load, of one value: dates and datetimes go
\* through serialize, a tuple becomes a list, the rest is kept
RECURSIVE json_value(_)
json_value(value) ==
    IF value.k \in {"datetime", "date"} THEN serialize(value)
    ELSE IF value.k = "dict"
    THEN PyDict([x \in DOMAIN value.v |-> json_value(value.v[x])])
    ELSE IF value.k \in {"list", "tuple"}
    THEN PyList([i \in 1..Len(value.v) |-> json_value(value.v[i])])
    ELSE value

\* Shotgun.sgmock_json_dump: the document for dict(self._store)
json_dump(db) ==
    [t \in Types |->
        [sid \in {IdKey(i) : i \in DOMAIN db.store[t]} |->
            [x \in DOMAIN db.store[t][IntOfKey(sid)] |->
                json_value(db.store[t][IntOfKey(sid)][x])]]]

\* the decimal number written with the digits cs[from..to]
RECURSIVE Number(_, _, _)
Number(cs, from, to) ==
    IF to < from THEN 0 ELSE 10 * Number(cs, from, to - 1) + (cs[to] - 48)

\* \d{n} at cs[from..]
Digits(cs, from, n) ==
    Len(cs) >= from + n - 1 /\ \A i \in from..(from + n - 1) : cs[i] \in 48..57

\* the date part of the pattern, at the start of the string:
\* (\d{4})-(\d{2})-(\d{2})
DatePart(cs) ==
    /\ Digits(cs, 1, 4) /\ Len(cs) >= 5 /\ cs[5] = 45
    /\ Digits(cs, 6, 2) /\ Len(cs) >= 8 /\ cs[8] = 45
    /\ Digits(cs, 9, 2)

\* the time part without its optional fraction and its Z:
\* T(\d{2}):(\d{2}):(\d{2})
TimePart(cs) ==
    /\ Len(cs) >= 19 /\ cs[11] = 84
    /\ Digits(cs, 12, 2) /\ cs[14] = 58
    /\ Digits(cs, 15, 2) /\ cs[17] = 58
    /\ Digits(cs, 18, 2)

\* the fraction matched, (?:.(\d{6}))? then Z: any character, six digits, Z
WithFraction(cs) == TimePart(cs) /\ Digits(cs, 21, 6) /\ Len(cs) >= 27 /\ cs[27] = 90

\* the fraction skipped: Z follows the seconds
WithoutFraction(cs) == TimePart(cs) /\ ~WithFraction(cs) /\ Len(cs) >= 20 /\ cs[20] = 90

\* datetime.date(year, month, day) for the dates in use
MakeDate(year, month, day) ==
    IF month \notin 1..12 \/ day \notin 1..31 THEN [err |-> "ValueError", v |-> PyNone]
    ELSE [err |-> "",
          v |-> CASE year = 2020 /\ month = 1 /\ day \in 1..2 -> PyDate(day - 1)]

\* datetime.datetime(year, ..., microsecond) for the datetimes in use
MakeDateTime(year, month, day, hour, minute, second, microsecond) ==
    IF month \notin 1..12 \/ day \notin 1..31 \/ hour > 23 \/ minute > 59 \/ second > 59
    THEN [err |-> "ValueError", v |-> PyNone]
    ELSE [err |-> "",
          v |-> CASE year = 2020 /\ month = 1 /\ day = 1 /\ hour = 0 /\ minute = 0
                     /\ second \in 0..1 /\ microsecond \in {0, 500000}
                     -> PyDateTime(2 * second + microsecond \div 500000)]

\* the conversion sgmock_json_load makes of one field value: a string that
\* the pattern matches at its start becomes a date or a datetime; with a
\* time and no fraction the group microsecond is None and int(None) raises
convert_value(value) ==
    IF value.k # "str" THEN [err |-> "", v |-> value]
    ELSE LET cs == Chars(value.v)
         IN  IF ~DatePart(cs) THEN [err |-> "", v |-> value]
             ELSE IF WithFraction(cs)
             THEN MakeDateTime(Number(cs, 1, 4), Number(cs, 6, 7), Number(cs, 9, 10),
                               Number(cs, 12, 13), Number(cs, 15, 16),
                               Number(cs, 18, 19), Number(cs, 21, 26))
             ELSE IF WithoutFraction(cs) THEN [err |-> "TypeError", v |-> PyNone]
             ELSE MakeDate(Number(cs, 1, 4), Number(cs, 6, 7), Number(cs, 9, 10))

\* Shotgun.sgmock_json_load of a document: the live map is replaced by the
\* converted document, the counters by the largest id of each type, the
\* retired map is emptied; the first exception of a conversion is raised
\* before anything is replaced
json_load(db, doc) ==
    LET conv == [t \in DOMAIN doc |-> [sid \in DOMAIN doc[t] |->
                    [x \in DOMAIN doc[t][sid] |-> convert_value(doc[t][sid][x])]]]
        loaded(t) == IF t \notin DOMAIN doc THEN EmptyDict
                     ELSE [i \in {IntOfKey(sid) : sid \in DOMAIN doc[t]} |->
                              [x \in DOMAIN doc[t][IdKey(i)] |-> conv[t][IdKey(i)][x].v]]
    IN  IF \E t \in DOMAIN doc : \E sid \in DOMAIN doc[t] : \E x \in DOMAIN doc[t][sid] :
              conv[t][sid][x].err # ""
        THEN Raises(db, CHOOSE e \in {"TypeError", "ValueError"} :
                          \E t \in DOMAIN doc : \E sid \in DOMAIN doc[t] :
                              \E x \in DOMAIN doc[t][sid] : conv[t][sid][x].err = e)
        ELSE Returns([db EXCEPT
                        !.store = [t \in Types |-> loaded(t)],
                        !.deleted = [t \in Types |-> EmptyDict],
                        !.ids = [t \in Types |->
                                    IF DOMAIN loaded(t) = {} THEN 0
                                    ELSE CHOOSE m \in DOMAIN loaded(t) :
                                            \A i \in DOMAIN loaded(t) : i <= m],
                        !.inserted = [t \in Types |-> KeyOrder(DOMAIN loaded(t))]],
                     PyNone)


(***************************************************************************)
(* The inputs the calls are made with.                                     *)
(***************************************************************************)
Ids == 1..MaxId

\* data of create: with and without a caller-supplied id
CreateData ==
    {EmptyDict, [code |-> PyStr("ab")]} \cup {[id |-> PyInt(i)] : i \in Ids}

\* data of update
UpdateData == {[code |-> PyStr("b")]}

\* a condition in the flat wire form [field, relation, value, ...]
Cond(field, rel, values) == PyList(<<PyStr(field), PyStr(rel)>> \o values)

\* filters that compile
Filters ==
    {PyList(<<>>),
     PyList(<<Cond("code", "is", <<PyStr("a")>>)>>),
     PyList(<<Cond("code", "is_not", <<PyStr("a")>>)>>),
     PyList(<<Cond("code", "in", <<PyStr("a"), PyStr("b")>>)>>),
     PyList(<<Cond("code", "not_in", <<PyList(<<PyStr("ab"), PyNone>>)>>)>>),
     PyList(<<Cond("code", "starts_with", <<PyStr("a")>>)>>),
     PyList(<<Cond("code", "ends_with", <<PyStr("b")>>)>>),
     PyList(<<Cond("code", "less_than", <<PyStr("ab")>>)>>),
     PyList(<<Cond("id", "greater_than", <<PyInt(1)>>)>>),
     PyList(<<Cond("created_at", "is", <<PyStr("2020-01-01T00:00:00Z")>>)>>),
     PyList(<<Cond("id", "less_than", <<PyInt(3)>>),
              Cond("code", "ends_with", <<PyStr("b")>>)>>),
     PyDict([logical_operator |-> PyStr("or"),
             conditions |-> PyList(<<Cond("code", "is", <<PyStr("b")>>),
                                     Cond("id", "is", <<PyInt(1)>>)>>)]),
     PyDict([filter_operator |-> PyStr("any"),
             filters |-> PyList(<<Cond("code", "starts_with", <<PyStr("ab")>>),
                                  Cond("id", "is", <<PyInt(2)>>)>>)])}

\* filters the calls of find are made with: two that compile, one that does not
FindFilters ==
    {PyList(<<>>),
     PyList(<<Cond("code", "is", <<PyStr("b")>>)>>),
     PyList(<<Cond("code", "like", <<PyStr("a")>>)>>)}

\* limit and page of find
Limits == {-1, 0, 1, 2, LimitCap, LimitCap + 1}
Pages == {-1, 0, 1, 2, 3}

\* a request of a batch
Request(type_, entity_type, entity_id, data) ==
    IF type_ = "create"
    THEN PyDict([request_type |-> PyStr(type_), entity_type |-> PyStr(entity_type),
                 data |-> PyDict(data)])
    ELSE IF type_ = "update"
    THEN PyDict([request_type |-> PyStr(type_), entity_type |-> PyStr(entity_type),
                 entity_id |-> PyInt(entity_id), data |-> PyDict(data)])
    ELSE PyDict([request_type |-> PyStr(type_), entity_type |-> PyStr(entity_type),
                 entity_id |-> PyInt(entity_id)])

\* the request lists the calls of batch are made with: the empty list, lists
\* that succeed, lists that fail at the first request and at the second
BatchCalls ==
    LET create_ == Request("create", "Shot", 0, EmptyDict)
        create1 == Request("create", "Shot", 0, [id |-> PyInt(1)])
        update1 == Request("update", "Shot", 1, [code |-> PyStr("b")])
        delete1 == Request("delete", "Shot", 1, EmptyDict)
        untyped == PyDict([entity_type |-> PyStr("Shot"), entity_id |-> PyInt(1)])
        unknown == PyDict([request_type |-> PyStr("revive"),
                           entity_type |-> PyStr("Shot"), entity_id |-> PyInt(1)])
        no_data == PyDict([request_type |-> PyStr("update"),
                           entity_type |-> PyStr("Shot"), entity_id |-> PyInt(1)])
    IN  {<<>>, <<create_>>, <<create_, delete1>>, <<create_, untyped>>,
         <<update1, create1>>, <<delete1, create1>>, <<unknown>>,
         <<create_, no_data>>}

(***************************************************************************)
(* The state machine.                                                      *)
(***************************************************************************)
Db == [store |-> store, deleted |-> deleted, ids |-> ids,
       inserted |-> inserted, now |-> now]

\* no call is in progress and the result of the last one has been taken
Idle == [op |-> "idle", args |-> <<>>, ret |-> PyNone, err |-> "", changed |-> FALSE]

\* no file has been written
NoDump == <<>>

\* a call of n requests leaves database r.db, having returned r.ret or raised
\* r.err; each request of a call that changes the database counts as a write
Leaves(op, args, r, n) ==
    /\ last = Idle
    /\ store' = r.db.store
    /\ deleted' = r.db.deleted
    /\ ids' = r.db.ids
    /\ inserted' = r.db.inserted
    /\ now' = r.db.now
    /\ writes' = IF r.db # Db THEN writes + n ELSE writes
    /\ last' = [op |-> op, args |-> args, ret |-> r.ret, err |-> r.err,
                changed |-> r.db # Db]
    /\ dumped' = dumped

Init ==
    /\ store = EmptyDb.store
    /\ deleted = EmptyDb.deleted
    /\ ids = EmptyDb.ids
    /\ inserted = EmptyDb.inserted
    /\ now = EmptyDb.now
    /\ writes = 0
    /\ last = Idle
    /\ dumped = NoDump

Create(entity_type, data) ==
    Leaves("create", [entity_type |-> entity_type, data |-> data],
           create(Db, entity_type, data), 1)

Update(entity_type, entity_id, data) ==
    Leaves("update",
           [entity_type |-> entity_type, entity_id |-> entity_id, data |-> data],
           update(Db, entity_type, PyInt(entity_id), data), 1)

Delete(entity_type, entity_id) ==
    Leaves("delete", [entity_type |-> entity_type, entity_id |-> entity_id],
           delete(Db, entity_type, PyInt(entity_id)), 1)

Revive(entity_type, entity_id) ==
    Leaves("revive", [entity_type |-> entity_type, entity_id |-> entity_id],
           revive(Db, entity_type, PyInt(entity_id)), 1)

Find(entity_type, filters, fields, limit, retired_only, page) ==
    Leaves("find",
           [entity_type |-> entity_type, filters |-> filters, fields |-> fields,
            limit |-> limit, retired_only |-> retired_only, page |-> page],
           find(Db, entity_type, filters, fields, limit, retired_only, page), 1)

Batch(requests) ==
    Leaves("batch", [requests |-> requests], batch(Db, requests), Len(requests))

\* time passes: the next utcnow() returns a later value
Tick ==
    /\ last = Idle
    /\ now < MaxTime
    /\ now' = now + 1
    /\ UNCHANGED <<store, deleted, ids, inserted, writes, last, dumped>>

\* the bounds of a run: the ids handed out and the number of writes
Within(maxId, maxWrites) ==
    /\ \A t \in Types : ids'[t] <= maxId
    /\ writes' <= maxWrites

\* the caller takes the result of the last call
Return ==
    /\ last # Idle
    /\ last' = Idle
    /\ UNCHANGED <<store, deleted, ids, now, inserted, writes, dumped>>

Next ==
    \/ \E t \in Types, d \in CreateData :
            Create(t, d) /\ Within(MaxId, MaxWrites)
    \/ \E t \in Types, i \in Ids, d \in UpdateData :
            Update(t, i, d) /\ Within(MaxId, MaxWrites)
    \/ \E t \in Types, i \in Ids :
            Delete(t, i) /\ Within(MaxId, MaxWrites)
    \/ \E t \in Types, i \in Ids :
            Revive(t, i) /\ Within(MaxId, MaxWrites)
    \/ \E t \in Types, f \in FindFilters, r \in BOOLEAN :
            Find(t, f, <<"code">>, LimitCap, r, 1)
    \/ \E rs \in BatchCalls :
            Batch(rs) /\ Within(MaxId, MaxWrites)
    \/ Tick
    \/ Return

Spec == Init /\ [][Next]_vars

(***************************************************************************)
(* The machine for paging: one type filled with up to MaxRecords records, *)
(* read with every limit and page of Limits and Pages.                     *)
(***************************************************************************)
PagingFilters ==
    {PyList(<<>>), PyList(<<Cond("code", "is", <<PyStr("ab")>>)>>)}

NextPaging ==
    \/ \E d \in {EmptyDict, [code |-> PyStr("ab")]} :
            Create("Shot", d) /\ Within(MaxRecords, MaxRecords)
    \/ \E f \in PagingFilters, limit \in Limits, page \in Pages :
            Find("Shot", f, <<>>, limit, FALSE, page)
    \/ Return

SpecPaging == Init /\ [][NextPaging]_vars

(***************************************************************************)
(* The machine for filters: the store is loaded from one of a few          *)
(* documents, some of its entities are deleted, and it is read with find   *)
(* and find_one under the filters of FilterCases.                          *)
(***************************************************************************)
\* an entity of a document, and a link to one
Ent(t, i, fields) == DictUpdate([type |-> PyStr(t), id |-> PyInt(i)], fields)
Link(t, i) == PyDict([type |-> PyStr(t), id |-> PyInt(i)])

\* the documents loaded: Shots with a code, Tasks whose field entity is a
\* link with a further key, a bare link, null, absent, a link to another
\* type, a list of links; Shots with a fraction in created_at; no entity
FilterDocs ==
    {[Shot |-> ("1" :> Ent("Shot", 1, [code |-> PyStr("a")]))
               @@ ("2" :> Ent("Shot", 2, [code |-> PyStr("ab")]))
               @@ ("3" :> Ent("Shot", 3, [code |-> PyStr("b")])),
      Task |-> ("1" :> Ent("Task", 1,
                           [code |-> PyStr("b"),
                            entity |-> PyDict([type |-> PyStr("Shot"), id |-> PyInt(1),
                                               name |-> PyStr("a")])]))
               @@ ("2" :> Ent("Task", 2, [entity |-> Link("Shot", 2)]))
               @@ ("3" :> Ent("Task", 3, [entity |-> PyNone]))
               @@ ("4" :> Ent("Task", 4, EmptyDict))],
     [Shot |-> ("2" :> Ent("Shot", 2, [code |-> PyNone])),
      Task |-> ("1" :> Ent("Task", 1, [entity |-> Link("Task", 1)]))
               @@ ("2" :> Ent("Task", 2, [entity |-> PyList(<<Link("Shot", 1)>>)]))],
     [Shot |-> ("1" :> Ent("Shot", 1,
                           [code |-> PyStr("a"),
                            created_at |-> PyStr("2020-01-01T00:00:00.500000Z")]))
               @@ ("2" :> Ent("Shot", 2,
                              [code |-> PyInt(1),
                               created_at |-> PyStr("2020-01-01T00:00:01.500000Z")])),
      Task |-> EmptyDict],
     [Shot |-> EmptyDict, Task |-> EmptyDict]}

\* a legacy group and a structured group
Legacy(op, conditions) ==
    PyDict([filter_operator |-> PyStr(op), filters |-> PyList(conditions)])
Structured(op, conditions) ==
    PyDict([logical_operator |-> PyStr(op), conditions |-> PyList(conditions)])

\* a condition in the structured wire form
CondDict(field, rel, values) ==
    PyDict([relation |-> PyStr(rel), path |-> PyStr(field), values |-> PyList(values)])

\* filters with an unknown relation: alone, after a condition that fails on
\* some records, after one that holds under OR, in a structured condition,
\* two groups deep in a position evaluation would not reach
BadRelation ==
    {PyList(<<Cond("code", "like", <<PyStr("a")>>)>>),
     PyList(<<Cond("code", "is", <<PyStr("a")>>), Cond("code", "like", <<PyStr("a")>>)>>),
     Legacy("any", <<Cond("id", "greater_than", <<PyInt(0)>>),
                     Cond("code", "like", <<PyStr("a")>>)>>),
     Structured("or", <<Cond("id", "greater_than", <<PyInt(0)>>),
                        CondDict("code", "like", <<PyStr("a")>>)>>),
     PyList(<<Legacy("any", <<Cond("id", "greater_than", <<PyInt(0)>>),
                              Legacy("all", <<Cond("code", "is", <<PyStr("a")>>),
                                              Cond("code", "contains", <<PyStr("a")>>)>>)>>)>>)}

\* filters with an operator that is none of and, or, all, any: at the top in
\* both wire forms, and in nested groups
BadOperator ==
    {Structured("xor", <<>>),
     Legacy("none", <<Cond("code", "is", <<PyStr("a")>>)>>),
     PyList(<<Cond("code", "is", <<PyStr("a")>>), Legacy("not", <<>>)>>),
     Structured("or", <<Cond("id", "greater_than", <<PyInt(0)>>),
                        Legacy("all", <<Legacy("AND", <<>>)>>)>>)}

\* a legacy group without the key filter_operator
LegacyDefault(conditions) == PyDict([filters |-> PyList(conditions)])

\* groups as conditions of a list and of a group: a legacy group with its
\* operator, a structured group, a legacy group without its operator
NestedGroups ==
    LET is_a == Cond("code", "is", <<PyStr("a")>>)
        is_b == Cond("code", "is", <<PyStr("b")>>)
        low == Cond("id", "is", <<PyInt(1)>>)
    IN  {PyList(<<Legacy("any", <<is_a, is_b>>)>>),
         Structured("or", <<low, Legacy("all", <<is_b, Legacy("any", <<is_a, is_b>>)>>)>>),
         PyList(<<Structured("or", <<is_a, is_b>>)>>),
         Legacy("any", <<low, Structured("and", <<is_b>>)>>),
         PyList(<<LegacyDefault(<<is_a>>)>>),
         Structured("or", <<low, LegacyDefault(<<is_b>>)>>)}

\* the three wire forms of a condition of field, relation and values
FormFlat(c) == PyList(<<Cond(c.field, c.rel, c.values)>>)
FormPacked(c) == PyList(<<Cond(c.field, c.rel, <<PyList(c.values)>>)>>)
FormDict(c) == PyList(<<CondDict(c.field, c.rel, c.values)>>)

\* value lists of conditions: none, one, two values; scalars, null, a
\* datetime as a string; links; one value that is itself a list
ScalarValues ==
    {<<>>, <<PyStr("a")>>, <<PyStr("a"), PyStr("b")>>, <<PyInt(1)>>, <<PyNone>>,
     <<PyInt(1), PyStr("ab"), PyNone>>, <<PyStr("2020-01-01T00:00:00Z")>>}
LinkValues ==
    {<<Link("Shot", 1)>>, <<Link("Shot", 2), Link("Task", 1)>>}
ListValues ==
    {<<PyList(<<PyStr("a")>>)>>, <<PyList(<<>>)>>, <<PyList(<<PyStr("a"), PyStr("b")>>)>>}

\* the conditions the wire forms are compared on: every relation on scalar
\* fields with every value list, and on the link field with the values its
\* comparison is modelled for
FormCases ==
    [field : {"code", "id", "created_at"}, rel : Relations,
     values : ScalarValues \cup LinkValues \cup ListValues]
    \cup [field : {"entity"}, rel : Relations, values : ScalarValues]
    \cup [field : {"entity"}, rel : {"is", "is_not", "in", "not_in"},
          values : LinkValues \cup ListValues]

\* the conditions find is called with in each of their forms
FormCalls ==
    {[field |-> "code", rel |-> "in", values |-> <<PyStr("a"), PyStr("b")>>],
     [field |-> "code", rel |-> "is", values |-> <<PyList(<<PyStr("a")>>)>>],
     [field |-> "entity", rel |-> "is", values |-> <<Link("Shot", 1)>>]}
FormFilters ==
    {FormFlat(c) : c \in FormCalls} \cup {FormPacked(c) : c \in FormCalls}
    \cup {FormDict(c) : c \in FormCalls}

\* the conditions groups are made of, and the groups of up to two of them
\* under each operator in each wire form
LogicLeaves ==
    {Cond("code", "is", <<PyStr("a")>>), Cond("code", "is_not", <<PyStr("b")>>),
     Cond("id", "greater_than", <<PyInt(1)>>), Cond("code", "in", <<PyStr("a"), PyNone>>),
     Cond("entity", "is", <<Link("Shot", 1)>>), Cond("code", "starts_with", <<PyStr("a")>>)}
LogicLists ==
    {<<>>} \cup {<<c>> : c \in LogicLeaves} \cup (LogicLeaves \X LogicLeaves)
LogicGroups ==
    {PyList(cs) : cs \in LogicLists}
    \cup {Legacy(op, cs) : op \in {"all", "any", "and", "or"}, cs \in LogicLists}
    \cup {Structured(op, cs) : op \in {"all", "any", "and", "or"}, cs \in LogicLists}
    \cup {LegacyDefault(cs) : cs \in LogicLists}

\* the groups find is called with
LogicFilters ==
    {PyList(<<>>), Structured("or", <<>>),
     Legacy("any", <<Cond("code", "is", <<PyStr("a")>>),
                     Cond("id", "greater_than", <<PyInt(2)>>)>>),
     Structured("all", <<Cond("code", "is_not", <<PyStr("b")>>),
                         Cond("id", "greater_than", <<PyInt(1)>>)>>)}

\* conditions with the relation is: link values, bare and with a further
\* key, and values that are no links
IsCases ==
    [field : {"entity", "code"}, rel : {"is"},
     values : {<<Link("Shot", 1)>>,
               <<PyDict([type |-> PyStr("Shot"), id |-> PyInt(2), code |-> PyStr("x")])>>,
               <<Link("Task", 1)>>, <<PyStr("a")>>, <<PyNone>>, <<PyInt(1)>>}]
IsFilters == {FormFlat(c) : c \in IsCases}

FilterCases ==
    BadRelation \cup BadOperator \cup NestedGroups \cup FormFilters \cup LogicFilters
    \cup IsFilters

Load(doc) == Leaves("load", [doc |-> doc], json_load(Db, doc), 1)

FindOne(entity_type, filters, fields, retired_only) ==
    Leaves("find_one",
           [entity_type |-> entity_type, filters |-> filters, fields |-> fields,
            retired_only |-> retired_only],
           find_one(Db, entity_type, filters, fields, retired_only), 1)

NextFilters ==
    \/ \E doc \in FilterDocs : Load(doc) /\ Within(MaxRecords, MaxWrites)
    \/ \E t \in Types, f \in FilterCases :
            Find(t, f, <<"code", "entity">>, LimitCap, FALSE, 1)
    \/ \E t \in Types, f \in FilterCases, r \in BOOLEAN :
            FindOne(t, f, <<"code", "entity">>, r)
    \/ \E t \in Types, i \in Ids :
            Delete(t, i) /\ Within(MaxRecords, MaxWrites)
    \/ Return

SpecFilters == Init /\ [][NextFilters]_vars


(***************************************************************************)
(* The machine for links: Shots and Tasks are created and updated with     *)
(* data that holds links, deleted and revived, and read with find and      *)
(* find_one for the fields that hold them.                                 *)
(***************************************************************************)
\* a link that carries further keys
FullLink(t, i) ==
    PyDict([type |-> PyStr(t), id |-> PyInt(i), name |-> PyStr("b"), code |-> PyNone])

\* data of create for a Shot
ShotData == {EmptyDict, [name |-> PyStr("x"), code |-> PyStr("a")]}

\* data of create and update for a Task: a bare link beside a scalar, a link
\* with further keys, a link to a type that has no entity, links as the
\* elements of a list beside a scalar, a link inside a mapping inside a list
\* inside a mapping
TaskData ==
    {[content |-> PyStr("a"), entity |-> Link("Shot", 1)],
     [entity |-> FullLink("Shot", 2)],
     [entity |-> Link("Asset", 1)],
     [assets |-> PyList(<<FullLink("Shot", 1), Link("Shot", 2), PyStr("a")>>)],
     [meta |-> PyDict([n |-> PyInt(1),
                       owners |-> PyList(<<PyDict([who |-> FullLink("Shot", 1)])>>)])]}

\* the fields find is asked for
LinkFields == {<<>>, <<"entity">>, <<"entity", "assets", "meta", "content", "name">>}

\* the filters of find
LinkFilters ==
    {PyList(<<>>), PyList(<<Cond("entity", "is", <<Link("Shot", 1)>>)>>)}

NextLinks ==
    \/ \E d \in ShotData : Create("Shot", d) /\ Within(MaxId, MaxWrites)
    \/ \E d \in TaskData : Create("Task", d) /\ Within(MaxId, MaxWrites)
    \/ \E d \in TaskData : Update("Task", 1, d) /\ Within(MaxId, MaxWrites)
    \/ \E t \in Types, i \in Ids : Delete(t, i) /\ Within(MaxId, MaxWrites)
    \/ \E i \in Ids : Revive("Shot", i) /\ Within(MaxId, MaxWrites)
    \/ \E t \in Types, f \in LinkFilters, fs \in LinkFields, r \in BOOLEAN :
            Find(t, f, fs, LimitCap, r, 1)
    \/ \E t \in Types, fs \in LinkFields :
            FindOne(t, PyList(<<>>), fs, FALSE)
    \/ Return

SpecLinks == Init /\ [][NextLinks]_vars


(***************************************************************************)
(* The machine for the snapshot: Shots are created with dates, datetimes   *)
(* and strings at different times of the clock and deleted; the store is   *)
(* dumped to the file and the file is loaded.                              *)
(***************************************************************************)
\* data of create: a datetime with microseconds and one of whole seconds, a
\* date, a string, a string that reads as a date, nothing
JsonData ==
    {EmptyDict, [due |-> PyDateTime(1)], [due |-> PyDateTime(0)], [day |-> PyDate(0)],
     [code |-> PyStr("a")], [code |-> PyStr("2020-01-02")]}

\* Shotgun.sgmock_json_dump to the file
Dump ==
    /\ last = Idle
    /\ dumped' = [doc |-> json_dump(Db), of |-> store]
    /\ last' = [op |-> "dump", args |-> <<>>, ret |-> PyNone, err |-> "",
                changed |-> FALSE]
    /\ UNCHANGED <<store, deleted, ids, now, inserted, writes>>

\* Shotgun.sgmock_json_load of the file
LoadDumped == dumped # NoDump /\ Load(dumped.doc)

NextJson ==
    \/ \E d \in JsonData : Create("Shot", d) /\ Within(MaxId, MaxWrites)
    \/ \E i \in Ids : Delete("Shot", i) /\ Within(MaxId, MaxWrites)
    \/ Tick
    \/ Dump
    \/ LoadDumped /\ Within(MaxId, MaxWrites)
    \/ Return

SpecJson == Init /\ [][NextJson]_vars

(***************************************************************************)
(* The deep-link machine: Shots, one of them with a link to the other, are *)
(* created and deleted, Tasks are created with what the field entity may   *)
(* hold, a store is loaded in which Task 1 links to Shot 2, which is       *)
(* neither live nor retired, and find on Task asks for dotted fields.      *)
(***************************************************************************)
\* data of create for a Shot: a code, a code and a link to Shot 1, a name
DeepShotData ==
    {[code |-> PyStr("a")],
     [code |-> PyStr("ab"), parent |-> Link("Shot", 1)],
     [name |-> PyStr("x")]}

\* data of create for a Task: the field entity is a link to a Shot, a link
\* to a Task, a string, a mapping with a type and no id, a mapping with an
\* id and no type, a list of links, absent; a key that is a dotted field
DeepTaskData ==
    {[content |-> PyStr("a"), entity |-> Link("Shot", 1)],
     [entity |-> Link("Shot", 2)],
     [entity |-> Link("Task", 1)],
     [entity |-> PyStr("a")],
     [entity |-> PyDict([type |-> PyStr("Shot")])],
     [entity |-> PyDict([id |-> PyInt(1)])],
     [entity |-> PyList(<<Link("Shot", 1)>>)],
     [content |-> PyStr("b")],
     ("entity.Shot.code" :> PyStr("b"))}

\* the fields find is asked for
DeepFields ==
    {<<"entity.Shot.code">>,
     <<"entity.Shot.parent", "entity.Task.code">>,
     <<"entity.Shot.missing", "missing.Shot.code", "content.Shot.code">>,
     <<"entity.Shot.code.more">>,
     <<"entity.Shot", "entity">>,
     <<"entity..code">>}

NextDeep ==
    \/ \E d \in DeepShotData : Create("Shot", d) /\ Within(MaxId, MaxWrites)
    \/ \E d \in DeepTaskData : Create("Task", d) /\ Within(MaxId, MaxWrites)
    \/ \E i \in Ids : Delete("Shot", i) /\ Within(MaxId, MaxWrites)
    \/ Load([Shot |-> ("1" :> Ent("Shot", 1, [code |-> PyStr("a")])),
              Task |-> ("1" :> Ent("Task", 1, [entity |-> Link("Shot", 2)]))])
          /\ Within(MaxId, MaxWrites)
    \/ \E fs \in DeepFields : Find("Task", PyList(<<>>), fs, LimitCap, FALSE, 1)
    \/ Return

SpecDeep == Init /\ [][NextDeep]_vars

(***************************************************************************)
(* The identity machine: create, update and batch are given data that name *)
(* the fields type and id, beside delete and revive.                       *)
(***************************************************************************)
\* data of create: no field, a type, a type and an id, an id and a code, a
\* type that is null
IdentityData ==
    {EmptyDict,
     [type |-> PyStr("Task")],
     [type |-> PyStr("Task"), id |-> PyInt(2)],
     [id |-> PyInt(1), code |-> PyStr("a")],
     [type |-> PyNone]}

\* data of update: a code, an id, a type, an id and the type of the entity
IdentityUpdates ==
    {[code |-> PyStr("b")],
     [id |-> PyInt(2)],
     [type |-> PyStr("Task")],
     [id |-> PyInt(2), type |-> PyStr("Shot")]}

\* the calls of batch: a create with a type and an update with an id, an
\* update with a type after a create
IdentityCalls ==
    {<<Request("create", "Shot", 0, [type |-> PyStr("Task")]),
       Request("update", "Shot", 1, [id |-> PyInt(2)])>>,
     <<Request("create", "Shot", 0, EmptyDict),
       Request("update", "Shot", 1, [type |-> PyStr("Task")])>>}

NextIdentity ==
    \/ \E t \in Types, d \in IdentityData :
            Create(t, d) /\ Within(MaxId, MaxWrites)
    \/ \E t \in Types, i \in Ids, d \in IdentityUpdates :
            Update(t, i, d) /\ Within(MaxId, MaxWrites)
    \/ \E t \in Types, i \in Ids : Delete(t, i) /\ Within(MaxId, MaxWrites)
    \/ \E t \in Types, i \in Ids : Revive(t, i) /\ Within(MaxId, MaxWrites)
    \/ \E rs \in IdentityCalls : Batch(rs) /\ Within(MaxId, MaxWrites)
    \/ Return

SpecIdentity == Init /\ [][NextIdentity]_vars

(***************************************************************************)
(* The reading machine: Shots are created, updated and deleted while time  *)
(* passes, and find and find_one are called, on the live and on the        *)
(* retired Shots, with filters that match every Shot, some, or none, a     *)
(* filter that does not compile and one whose predicate raises on a Shot   *)
(* without a code.                                                         *)
(***************************************************************************)
ReadFilters ==
    {PyList(<<>>),
     PyList(<<Cond("code", "is", <<PyStr("b")>>)>>),
     PyList(<<Cond("code", "is", <<PyStr("a")>>)>>),
     PyList(<<Cond("code", "like", <<PyStr("a")>>)>>),
     PyList(<<Cond("code", "starts_with", <<PyStr("a")>>)>>)}

NextReads ==
    \/ \E d \in {EmptyDict, [code |-> PyStr("ab")]} :
            Create("Shot", d) /\ Within(MaxId, MaxWrites)
    \/ \E i \in Ids : Update("Shot", i, [code |-> PyStr("b")]) /\ Within(MaxId, MaxWrites)
    \/ \E i \in Ids : Delete("Shot", i) /\ Within(MaxId, MaxWrites)
    \/ \E f \in ReadFilters, r \in BOOLEAN :
            Find("Shot", f, <<"code", "updated_at">>, LimitCap, r, 1)
    \/ \E f \in ReadFilters, r \in BOOLEAN :
            FindOne("Shot", f, <<"code", "updated_at">>, r)
    \/ Tick
    \/ Return

SpecReads == Init /\ [][NextReads]_vars


(***************************************************************************)
(* Properties.  The operators below are evaluated on the reachable         *)
(* databases; a property about a call is stated on the call's operator     *)
(* applied to the database of the state, or on the step the call takes.    *)
(***************************************************************************)
\* the ids of the entities a find returned, in the order returned
RetIds(ret) == [k \in 1..Len(ret.v) |-> ret.v[k].v["id"].v]

\* the live ids of a type whose record the predicate compiled from F holds for
MatchIds(m, F) ==
    LET pred == compile_filters(F).pred
    IN  {i \in DOMAIN m : Apply(pred, m[i]) = "T"}

\* the elements of the sequence s that are in the set S, in the order of s
RECURSIVE Restrict(_, _)
Restrict(s, S) ==
    IF s = <<>> THEN <<>>
    ELSE IF Head(s) \in S THEN <<Head(s)>> \o Restrict(Tail(s), S)
    ELSE Restrict(Tail(s), S)

\* find with the default paging (limit 500, page 1) on the live records
FindLive(type_, F) == find(Db, type_, F, <<"code">>, LimitCap, FALSE, 1)

\* the entities ret are exactly the records of the id -> entity map m that
\* F's predicate holds for, each once and as its minimal copy with the field
\* code, in ascending id order
Exact(type_, m, F, ret) ==
    LET n == Len(ret.v)
    IN  /\ {RetIds(ret)[k] : k \in 1..n} = MatchIds(m, F)
        /\ \A j, k \in 1..n : j < k => RetIds(ret)[j] < RetIds(ret)[k]
        /\ \A k \in 1..n :
             LET e == m[RetIds(ret)[k]]
             IN  /\ ret.v[k].v["type"] = PyStr(type_)
                 /\ "code" \in DOMAIN e => ret.v[k].v["code"] = e["code"]
                 /\ "code" \notin DOMAIN e => "code" \notin DOMAIN ret.v[k].v

HeldIds(t) == DOMAIN store[t] \cup DOMAIN deleted[t]

\* C2, the step: no id counter decreases; every id held, live or retired, is
\* at most the counter of its type; a create without an id in data takes the
\* counter plus one, which no record of the type holds or has held; a create
\* leaves the counters of the other types alone.
C2_Step ==
    /\ \A t \in Types : ids'[t] >= ids[t]
    /\ \A t \in Types : \A i \in HeldIds(t) : i <= ids[t]
    /\ (last'.op = "create" /\ last'.err = "") =>
          LET t == last'.args.entity_type
              newId == last'.ret.v["id"].v
          IN  /\ "id" \notin DOMAIN last'.args.data =>
                    /\ newId = ids[t] + 1
                    /\ ids'[t] = newId
                    /\ \A i \in HeldIds(t) : i < newId
                    /\ newId \in DOMAIN store'[t]
              /\ \A u \in Types \ {t} : ids'[u] = ids[u]

\* C2: every step of create, update, delete, revive and batch keeps the id
\* counters monotone and above every id held, a create without an id assigns
\* counter + 1, and a create of one type never moves another type's counter.
C2_Counter == [][C2_Step]_vars

\* a create without an id has been given the id 2 while the record with id 1
\* is retired and the counter of the other type is still 0
C2_Witness ==
    /\ last.op = "create" /\ last.err = ""
    /\ "id" \notin DOMAIN last.args.data
    /\ last.ret.v["id"].v = 2
    /\ deleted[last.args.entity_type] # EmptyDict
    /\ \E u \in Types : ids[u] = 0

\* data naming the id i, alone and with another field
DataWithId(i) == {[id |-> PyInt(i)], [id |-> PyInt(i), code |-> PyStr("a")]}

\* C3: a create whose data names an id that a live record of the type has
\* raises, and the live map, the retired map and the counters are left as
\* they were.
C3_DuplicateCreate ==
    /\ last = Idle =>
          \A t \in Types : \A i \in DOMAIN store[t] : \A d \in DataWithId(i) :
              /\ create(Db, t, d).err = "ShotgunError"
              /\ create(Db, t, d).db = Db
    /\ (last.op = "create" /\ last.err # "") => ~last.changed

\* a create has been refused for an id that is live
C3_Witness ==
    /\ last.op = "create" /\ last.err = "ShotgunError"
    /\ "id" \in DOMAIN last.args.data
    /\ last.args.data["id"].v \in DOMAIN store[last.args.entity_type]

\* the filter [['id', 'is', i]]
IdIs(i) == PyList(<<Cond("id", "is", <<PyInt(i)>>)>>)

RECURSIVE AfterCalls(_, _)
AfterCalls(db, rs) ==
    IF rs = <<>> THEN db
    ELSE AfterCalls(batch_call(db, Head(rs).v).db, Tail(rs))

\* the calls that may come between a delete of (t, i) and its next revive:
\* at most two of create with the id, create without, update and delete
CallsBetween(t, i) ==
    LET calls == {Request("create", t, i, [id |-> PyInt(i)]),
                  Request("create", t, i, EmptyDict),
                  Request("update", t, i, [code |-> PyStr("a")]),
                  Request("delete", t, i, EmptyDict)}
    IN  {<<>>} \cup {<<c>> : c \in calls} \cup {<<c, d>> : c \in calls, d \in calls}

\* the fields a find is asked for to compare field values
AllFields == <<"code", "created_at", "updated_at">>

\* C5 (as stated): from a successful delete(type, id) until the next
\* revive(type, id), whatever calls come between, find on the live records
\* never returns (type, id) and find(type, [], retired_only=True) returns the
\* record with the field values it had when deleted; a retired_only find
\* returns the records of the retired map only and a live find those of the
\* live map only.
C5_DeleteKeeps ==
    last = Idle =>
      \A t \in Types : \A i \in DOMAIN store[t] : \A cs \in CallsBetween(t, i) :
          LET db1 == delete(Db, t, PyInt(i)).db
              db2 == AfterCalls(db1, cs)
              live == find(db2, t, PyList(<<>>), AllFields, LimitCap, FALSE, 1)
              dead == find(db2, t, PyList(<<>>), AllFields, LimitCap, TRUE, 1)
          IN  /\ live.err = "" /\ dead.err = ""
              /\ \A k \in 1..Len(live.ret.v) : RetIds(live.ret)[k] # i
              /\ \E k \in 1..Len(dead.ret.v) :
                    dead.ret.v[k] = minimal_copy(Db, PyDict(store[t][i]), AllFields)
              /\ {RetIds(live.ret)[k] : k \in 1..Len(live.ret.v)} = DOMAIN db2.store[t]
              /\ {RetIds(dead.ret)[k] : k \in 1..Len(dead.ret.v)} = DOMAIN db2.deleted[t]

\* data of the updates C6 and C7 are stated for: no field, a field, two
\* fields, an id with a field, and the creation time
UpdateCases ==
    {EmptyDict,
     [code |-> PyStr("a")],
     [code |-> PyStr("a"), name |-> PyStr("b")],
     [id |-> PyInt(MaxId + 1), code |-> PyNone],
     [created_at |-> PyStr("2020-01-01T00:00:03Z")]}

\* C6: an update of a live record returns; it changes that record only, and
\* of it only the fields data names and updated_at: the fields data names
\* (but id) take data's values, updated_at the time of the call, created_at
\* and every other field keep theirs; the other records, the retired map and
\* the counters are unchanged; the mapping returned has exactly the field
\* names of data plus type and id, with the values stored.
C6_UpdateMerges ==
    last = Idle =>
      \A t \in Types : \A i \in DOMAIN store[t] : \A d \in UpdateCases :
          LET r == update(Db, t, PyInt(i), d)
              old == store[t][i]
              new == r.db.store[t][i]
          IN  /\ r.err = ""
              /\ DOMAIN r.db.store[t] = DOMAIN store[t]
              /\ r.db.store = [store EXCEPT ![t][i] = new]
              /\ r.db.deleted = deleted
              /\ r.db.ids = ids
              /\ DOMAIN new = DOMAIN old \cup (DOMAIN d \ {"id"}) \cup {"updated_at"}
              /\ \A f \in DOMAIN old \ (DOMAIN d \cup {"updated_at"}) : new[f] = old[f]
              /\ new["id"] = old["id"]
              /\ \A f \in DOMAIN d \ {"id"} : new[f] = d[f]
              /\ new["updated_at"] = PyDateTime(now)
              /\ r.ret.k = "dict"
              /\ DOMAIN r.ret.v = DOMAIN d \cup {"type", "id"}
              /\ \A f \in DOMAIN r.ret.v : r.ret.v[f] = new[f]

\* an update has set a field of a record created earlier, with another
\* record of the type live
C6_Witness ==
    /\ last.op = "update" /\ last.err = "" /\ last.changed
    /\ DOMAIN last.ret.v = {"code", "type", "id"}
    /\ Cardinality(DOMAIN store[last.args.entity_type]) = 2
    /\ LET e == store[last.args.entity_type][last.args.entity_id]
       IN  e["updated_at"] # e["created_at"] /\ e["code"] = PyStr("b")

\* C7: an update of an id that is not live for the type, never created or
\* retired, raises and leaves the live map, the retired map and the counters
\* as they were.
C7_UpdateAbsent ==
    /\ last = Idle =>
          \A t \in Types : \A i \in (1..(MaxId + 1)) \ DOMAIN store[t] :
              \A d \in UpdateCases :
                  /\ update(Db, t, PyInt(i), d).err = "KeyError"
                  /\ update(Db, t, PyInt(i), d).db = Db
    /\ (last.op = "update" /\ last.err # "") => ~last.changed

\* an update of a retired id has raised
C7_Witness ==
    /\ last.op = "update" /\ last.err = "KeyError" /\ ~last.changed
    /\ last.args.entity_id \in DOMAIN deleted[last.args.entity_type]
    /\ last.args.entity_id \notin DOMAIN store[last.args.entity_type]

\* the arguments a request of each type must have
Required ==
    [create |-> {"entity_type", "data"},
     update |-> {"entity_type", "entity_id", "data"},
     delete |-> {"entity_type", "entity_id"}]

\* the request has no request_type, an unknown one, or lacks an argument
Malformed(request) ==
    \/ "request_type" \notin DOMAIN request
    \/ request["request_type"].v \notin DOMAIN Required
    \/ ~(Required[request["request_type"].v] \subseteq DOMAIN request)

\* request k of rs fails when made after the k-1 requests before it
FailsAt(db, rs, k) ==
    \/ Malformed(rs[k].v)
    \/ batch_call(AfterCalls(db, SubSeq(rs, 1, k - 1)), rs[k].v).err # ""

\* the index of the first request of rs that fails, if one does
FirstFailing(db, rs) ==
    {k \in 1..Len(rs) : (\A j \in 1..(k - 1) : ~FailsAt(db, rs, j)) /\ FailsAt(db, rs, k)}

\* C8, the step: when request k is the first of the batch to fail, the batch
\* raises and leaves the database that the requests before k leave when made
\* one by one as individual calls.
C8_Step ==
    last'.op = "batch" =>
      LET rs == last'.args.requests
      IN  \A k \in FirstFailing(Db, rs) :
              /\ last'.err # ""
              /\ Db' = AfterCalls(Db, SubSeq(rs, 1, k - 1))

\* C8: batch is sequential and not transactional.  When request k is the
\* first of a batch to fail (no request_type, an unknown one, a missing
\* argument, or an error of the create, update or delete itself), the batch
\* raises, the requests before k stay applied as the individual calls apply
\* them, and k and the requests after it are not applied.
C8_BatchPartial == [][C8_Step]_vars

\* a batch of two requests has raised at the second, the first applied
C8_Witness ==
    /\ last.op = "batch" /\ last.err # "" /\ last.changed
    /\ Len(last.args.requests) = 2

\* C9, the step: a batch of no requests raises and changes nothing; a batch
\* whose requests all succeed returns the results of the individual calls,
\* in request order, and leaves the database they leave.
C9_Step ==
    last'.op = "batch" =>
      LET rs == last'.args.requests
      IN  /\ rs = <<>> => (last'.err = "ShotgunError" /\ Db' = Db)
          /\ (rs # <<>> /\ FirstFailing(Db, rs) = {}) =>
                /\ last'.err = ""
                /\ last'.ret.k = "list"
                /\ Len(last'.ret.v) = Len(rs)
                /\ \A k \in 1..Len(rs) :
                      last'.ret.v[k] =
                        batch_call(AfterCalls(Db, SubSeq(rs, 1, k - 1)), rs[k].v).ret
                /\ Db' = AfterCalls(Db, rs)

\* C9: a batch whose requests all succeed returns one result per request,
\* in request order, each the result of the individual call made after the
\* calls before it, and leaves the database those calls leave; a batch of no
\* requests raises and leaves the database as it was.
C9_BatchAsCalls == [][C9_Step]_vars

\* a batch of two requests has returned two results of different kinds
C9_Witness ==
    /\ last.op = "batch" /\ last.err = "" /\ last.changed
    /\ Len(last.ret.v) = 2
    /\ last.ret.v[1].k = "dict" /\ last.ret.v[2].k = "bool"

\* the limit in effect: the limit asked for, clamped to 1..500
EffectiveLimit(limit) ==
    IF limit < 1 THEN 1 ELSE IF limit > 500 THEN 500 ELSE limit

\* the page in effect: at least 1
EffectivePage(page) == IF page < 1 THEN 1 ELSE page

\* the ids at the zero-based offsets (page-1)*limit .. (page-1)*limit+limit-1
\* of the matching live records of the type, as far as the matches go
PageOf(type_, F, limit, page) ==
    LET all == KeyOrder(MatchIds(store[type_], F))
        first == (EffectivePage(page) - 1) * EffectiveLimit(limit)
        offsets == {o \in first..(first + EffectiveLimit(limit) - 1) : o < Len(all)}
    IN  [k \in 1..Cardinality(offsets) |-> all[first + k]]

C11_CompileFails ==
    last.op \in {"find", "find_one"} /\ last.args.filters \in BadRelation \cup BadOperator
    => /\ last.err = (IF last.args.filters \in BadRelation THEN "MockError"
                      ELSE "ValueError")
       /\ last.ret = PyNone
       /\ ~last.changed

\* find has raised for a relation two groups deep, behind a condition that
\* holds under OR, on a store that holds Shots
C11_Witness ==
    /\ last.op = "find"
    /\ last.args.entity_type = "Shot"
    /\ last.args.filters.k = "list"
    /\ Len(last.args.filters.v) = 1
    /\ last.args.filters.v[1].k = "dict"
    /\ last.err = "MockError"
    /\ DOMAIN store["Shot"] # {}

\* the conditions of a group or list, and the operator it combines them under
Children(F) ==
    IF F.k # "dict" THEN F.v
    ELSE IF "conditions" \in DOMAIN F.v THEN F.v["conditions"].v
    ELSE F.v["filters"].v
OperatorOf(F) ==
    IF F.k # "dict" THEN "and"
    ELSE IF "logical_operator" \in DOMAIN F.v THEN F.v["logical_operator"].v
    ELSE IF "filter_operator" \in DOMAIN F.v THEN F.v["filter_operator"].v
    ELSE "and"
IsGroup(c) == c.k = "dict" /\ "relation" \notin DOMAIN c.v

\* what a filter is to hold for on a record: a group combines what its
\* conditions are to hold for under its operator, a single condition is
\* what the code makes of it alone
RECURSIVE Holds(_, _)
Holds(F, entity) ==
    LET kid(c) == IF IsGroup(c) THEN Holds(c, entity)
                  ELSE Apply(compile_condition(c).pred, entity) = "T"
        n == Len(Children(F))
    IN  IF OperatorOf(F) \in {"and", "all"} THEN \A i \in 1..n : kid(Children(F)[i])
        ELSE \E i \in 1..n : kid(Children(F)[i])

(***************************************************************************)
(* C12 (as stated): a group that is a condition of a list or of another    *)
(* group is compiled recursively in both wire forms, the legacy operator   *)
(* being 'and' when its key is absent: find returns the records for which  *)
(* the outer operator holds of the inner group's result and the other      *)
(* conditions.                                                             *)
(***************************************************************************)
C12_NestedGroups ==
    last.op = "find" /\ last.args.filters \in NestedGroups
    => /\ last.err = ""
       /\ RetIds(last.ret) =
            KeyOrder({i \in DOMAIN store[last.args.entity_type] :
                        Holds(last.args.filters, store[last.args.entity_type][i])})

\* the part of C12 the code keeps: a nested legacy group that names its
\* operator is compiled recursively
C12_LegacyNamed ==
    last.op = "find" /\ last.args.filters \in NestedGroups
    /\ (\A i \in 1..Len(Children(last.args.filters)) :
            LET c == Children(last.args.filters)[i]
            IN  IsGroup(c) => "filter_operator" \in DOMAIN c.v
                              /\ \A j \in 1..Len(Children(c)) :
                                    IsGroup(Children(c)[j]) =>
                                        "filter_operator" \in DOMAIN Children(c)[j].v)
    => /\ last.err = ""
       /\ RetIds(last.ret) =
            KeyOrder({i \in DOMAIN store[last.args.entity_type] :
                        Holds(last.args.filters, store[last.args.entity_type][i])})

\* find with a filter, as the calls of the filter machine make it
FindWith(t, F) == find(Db, t, F, <<"code", "entity">>, LimitCap, FALSE, 1)

\* the three wire forms of c have one result on the store
SameResult(c) ==
    \A t \in Types :
        /\ FindWith(t, FormFlat(c)) = FindWith(t, FormDict(c))
        /\ FindWith(t, FormPacked(c)) = FindWith(t, FormDict(c))

\* C13 (as stated): for every relation, field and value list the wire forms
\* [f, r, v1, ..., vn], [f, r, [v1, ..., vn]] and {relation, path, values}
\* give find the same result on every store.
C13_WireForms == last = Idle => \A c \in FormCases : SameResult(c)

\* the value lists whose flat form is not taken for the packed one
Unpacked(values) == ~(Len(values) = 1 /\ values[1].k \in {"list", "tuple"})

(***************************************************************************)
(* C13: for every relation, field and value list that is not one value     *)
(* that is itself a list, the three wire forms give find the same result   *)
(* (the same records or the same error) on every store; the packed and     *)
(* the mapping form do so for every value list.                            *)
(***************************************************************************)
C13_FormsAgree ==
    last = Idle =>
        \A c \in FormCases :
            /\ Unpacked(c.values) => SameResult(c)
            /\ \A t \in Types : FindWith(t, FormPacked(c)) = FindWith(t, FormDict(c))

\* find with a flat condition of two values has returned records, those the
\* mapping form returns
C13_Witness ==
    /\ last.op = "find"
    /\ \E c \in FormCalls :
          /\ Len(c.values) = 2
          /\ last.args.filters = FormFlat(c)
          /\ last.err = ""
          /\ last.ret.v # <<>>
          /\ last.ret = FindWith(last.args.entity_type, FormDict(c)).ret

\* the results of the conditions of a group on a record, each compiled alone
ChildResults(G, entity) ==
    [i \in 1..Len(Children(G)) |->
        Apply(compile_condition(Children(G)[i]).pred, entity)]

\* the records of the store
Records == UNION {{store[t][i] : i \in DOMAIN store[t]} : t \in Types}

\* a group holds on a record iff all of its conditions do (and, all) or one
\* of them does (or, any), for the records its conditions return on
GroupHolds(G, entity) ==
    LET rs == ChildResults(G, entity)
        r == Apply(compile_filters(G).pred, entity)
    IN  (\A i \in DOMAIN rs : rs[i] \in {"T", "F"})
        => /\ r \in {"T", "F"}
           /\ r = "T" <=> IF OperatorOf(G) \in {"and", "all"}
                          THEN \A i \in DOMAIN rs : rs[i] = "T"
                          ELSE \E i \in DOMAIN rs : rs[i] = "T"

\* is_not / not_in hold on a record iff is / in do not, when they return
NegationHolds(c, entity) ==
    LET pos == Apply(compile_condition(CondDict(c.field, c.rel, c.values)).pred, entity)
        neg == Apply(compile_condition(CondDict(c.field,
                        IF c.rel = "is" THEN "is_not" ELSE "not_in", c.values)).pred,
                     entity)
    IN  /\ pos \in {"T", "F"} <=> neg \in {"T", "F"}
        /\ pos \in {"T", "F"} => (neg = "T" <=> pos = "F")

\* the conditions with is and in that compile
Positive ==
    {c \in FormCases : c.rel \in {"is", "in"}
                       /\ compile_condition(CondDict(c.field, c.rel, c.values)).err = ""}

(***************************************************************************)
(* C14: on every record of every store, a group under and/all holds iff    *)
(* each of its conditions holds and a group under or/any iff one of them   *)
(* does, so that the empty list holds under AND and fails under OR;        *)
(* is_not and not_in hold exactly when is and in, of the same field and    *)
(* values, do not; and find with the empty list returns every record of    *)
(* the type, with the empty OR group none.                                 *)
(***************************************************************************)
C14_Composition ==
    /\ last = Idle =>
          \A e \in Records :
              /\ \A G \in LogicGroups : GroupHolds(G, e)
              /\ \A c \in Positive : NegationHolds(c, e)
              /\ Apply(compile_filters(PyList(<<>>)).pred, e) = "T"
              /\ Apply(compile_filters(Structured("or", <<>>)).pred, e) = "F"
    /\ last.op = "find" /\ last.args.filters = PyList(<<>>)
       => last.err = ""
          /\ RetIds(last.ret) = KeyOrder(DOMAIN store[last.args.entity_type])
    /\ last.op = "find" /\ last.args.filters = Structured("or", <<>>)
       => last.err = "" /\ last.ret = PyList(<<>>)

\* find with an OR group of two conditions has returned some of the Shots
\* and not all of them: those that one of the conditions holds for
C14_Witness ==
    /\ last.op = "find"
    /\ last.args.entity_type = "Shot"
    /\ last.args.filters \in LogicFilters
    /\ OperatorOf(last.args.filters) = "any"
    /\ last.err = ""
    /\ Len(last.ret.v) \in 1..(Cardinality(DOMAIN store["Shot"]) - 1)
    /\ \A i \in DOMAIN store["Shot"] :
          (\E k \in 1..Len(last.ret.v) : last.ret.v[k].v["id"].v = i)
          <=> \E j \in 1..2 : ChildResults(last.args.filters, store["Shot"][i])[j] = "T"

\* what C15 says of is: with a link value, the field is a link of the same
\* type and id; with another value, the field (null when absent) equals it
IsHolds(c, entity) ==
    LET value == c.values[1]
        field == DictGet(entity, c.field)
    IN  IF is_entity(value)
        THEN /\ is_entity(field)
             /\ field.v["type"] = value.v["type"]
             /\ field.v["id"] = value.v["id"]
        ELSE field = value

\* the ids find is to return for the condition c
IsIds(c, t) == KeyOrder({i \in DOMAIN store[t] : IsHolds(c, store[t][i])})

(***************************************************************************)
(* C15 (as stated): find with a condition [field, is, value] returns the   *)
(* records for which, value being a link, the field is a link with the     *)
(* type and id of the value whatever other keys either has (an absent or   *)
(* null field matching no link), and for which, value being no link, the   *)
(* field equals the value.                                                 *)
(***************************************************************************)
C15_IsLink ==
    last.op = "find" /\ last.args.filters \in IsFilters
    => \A c \in IsCases :
          last.args.filters = FormFlat(c)
          => last.err = "" /\ RetIds(last.ret) = IsIds(c, last.args.entity_type)

\* the part of C15 the code keeps: the same, on the stores where no record
\* holds in the field a value that is neither a mapping nor falsy while the
\* value is a link
C15_IsOnLinks ==
    last.op = "find" /\ last.args.filters \in IsFilters
    => \A c \in IsCases :
          /\ last.args.filters = FormFlat(c)
          /\ is_entity(c.values[1]) =>
                \A i \in DOMAIN store[last.args.entity_type] :
                    LET field == DictGet(store[last.args.entity_type][i], c.field)
                    IN  field.k = "dict" \/ ~Truthy(field)
          => last.err = "" /\ RetIds(last.ret) = IsIds(c, last.args.entity_type)

\* the first of the entities a find returned, or None
FirstOf(r) == IF r.ret.v = <<>> THEN PyNone ELSE r.ret.v[1]

(***************************************************************************)
(* C20: find_one returns the first of the entities find returns for the    *)
(* same type, filters, fields and retired_only with limit 1 and page 1,    *)
(* and None when it returns none; it raises what that find raises and      *)
(* nothing else; and whenever find with the default limit returns,         *)
(* find_one returns the first of its entities, or None when there is none. *)
(***************************************************************************)
C20_FindOne ==
    last.op = "find_one" =>
        LET a == last.args
            one == find(Db, a.entity_type, a.filters, a.fields, 1, a.retired_only, 1)
            all == find(Db, a.entity_type, a.filters, a.fields, LimitCap,
                        a.retired_only, 1)
        IN  /\ last.err = one.err
            /\ one.err = "" => last.ret = FirstOf(one)
            /\ all.err = "" => last.err = "" /\ last.ret = FirstOf(all)
            /\ ~last.changed

\* find_one has returned the first of two retired Shots that match, a live
\* Shot being left
C20_Witness ==
    /\ last.op = "find_one"
    /\ last.args.retired_only
    /\ last.args.entity_type = "Shot"
    /\ last.err = ""
    /\ last.ret # PyNone
    /\ Len(find(Db, "Shot", last.args.filters, last.args.fields, LimitCap, TRUE, 1).ret.v) = 2
    /\ store["Shot"] # EmptyDict

\* what C16 says is stored for a value of data: a mapping with type and id
\* as just these two when the entity is live and as null when it is not, the
\* other mappings and the lists with their values treated alike, the rest
\* as it is
RECURSIVE Stored(_)
Stored(v) ==
    IF v.k = "dict"
    THEN IF {"type", "id"} \subseteq DOMAIN v.v
         THEN IF v.v["type"].v \in Types /\ v.v["id"].v \in DOMAIN store[v.v["type"].v]
              THEN PyDict([type |-> v.v["type"], id |-> v.v["id"]])
              ELSE PyNone
         ELSE PyDict([x \in DOMAIN v.v |-> Stored(v.v[x])])
    ELSE IF v.k = "list" THEN PyList([i \in 1..Len(v.v) |-> Stored(v.v[i])])
    ELSE v

\* the id of the entity a create or an update has written
Written == IF last.op = "create" THEN last.ret.v["id"].v ELSE last.args.entity_id

(***************************************************************************)
(* C16: after a create or an update that returns, the entity holds for     *)
(* each field of the data the value of the data in which every mapping     *)
(* with type and id, at any depth, is exactly {type, id} when the entity   *)
(* it names is live and null when it is not (deleted, or never created),   *)
(* and every other value is as it was given; none of these calls raises.   *)
(***************************************************************************)
C16_LinksReduced ==
    last.op \in {"create", "update"}
    => IF last.err # ""
       THEN /\ last.op = "update"
            /\ last.args.entity_id \notin DOMAIN store[last.args.entity_type]
       ELSE \A f \in DOMAIN last.args.data \ {"id"} :
               store[last.args.entity_type][Written][f] = Stored(last.args.data[f])

\* a Task has been created with a list of a link with further keys to a live
\* Shot, a link to a Shot that is not live, and a string
C16_Witness ==
    /\ last.op = "create"
    /\ last.err = ""
    /\ "assets" \in DOMAIN last.args.data
    /\ DOMAIN store["Shot"] = {1}
    /\ store["Task"][Written]["assets"]
         = PyList(<<Link("Shot", 1), PyNone, PyStr("a")>>)

\* the entities a find or a find_one has returned
Returned ==
    IF last.op = "find" THEN {last.ret.v[k] : k \in 1..Len(last.ret.v)}
    ELSE IF last.op = "find_one" /\ last.ret # PyNone THEN {last.ret}
    ELSE {}

\* the map the last find or find_one has read
Source ==
    IF last.op = "find" /\ last.args.retired_only THEN deleted[last.args.entity_type]
    ELSE IF last.op = "find_one" /\ last.args.retired_only
    THEN deleted[last.args.entity_type]
    ELSE store[last.args.entity_type]

\* the fields the last find or find_one was asked for
Asked == {last.args.fields[k] : k \in 1..Len(last.args.fields)}

(***************************************************************************)
(* C17: a find or find_one never raises because the entity a stored link   *)
(* names has been deleted: it returns, and a returned entity whose field   *)
(* entity, asked for, holds a link has in that field a reference with the  *)
(* type and id of the link, whether the entity named is live or retired;   *)
(* with a Task created with a link to the live Shot 1 and Shot 1 deleted,  *)
(* find on Task for entity returns the Task with the reference to Shot 1.  *)
(***************************************************************************)
C17_DeletedTarget ==
    last.op \in {"find", "find_one"}
    => /\ last.err = ""
       /\ last.args.filters = PyList(<<>>) /\ last.op = "find"
          => RetIds(last.ret) = KeyOrder(DOMAIN Source)
       /\ \A r \in Returned :
             LET rec == Source[r.v["id"].v]
             IN  "entity" \in Asked /\ "entity" \in DOMAIN rec /\ is_entity(rec["entity"])
                 => /\ "entity" \in DOMAIN r.v
                    /\ r.v["entity"].k = "dict"
                    /\ r.v["entity"].v["type"] = rec["entity"].v["type"]
                    /\ r.v["entity"].v["id"] = rec["entity"].v["id"]

\* a Task created with content and a link to Shot 1, Shot 1 deleted since,
\* and find on Task for entity has returned the Task with the link
C17_Witness ==
    /\ last.op = "find"
    /\ last.args.entity_type = "Task"
    /\ last.args.fields = <<"entity">>
    /\ ~last.args.retired_only
    /\ 1 \in DOMAIN deleted["Shot"] /\ 1 \notin DOMAIN store["Shot"]
    /\ 1 \in DOMAIN store["Task"]
    /\ "content" \in DOMAIN store["Task"][1]
    /\ store["Task"][1]["entity"] = Link("Shot", 1)
    /\ last.err = ""
    /\ Len(last.ret.v) = 1
    /\ last.ret.v[1].v["entity"].k = "dict"
    /\ last.ret.v[1].v["entity"].v["id"] = PyInt(1)

\* the entity a link names, live or else retired, as a set of at most one
Target(link) ==
    LET t == link.v["type"]
        i == link.v["id"]
    IN  IF t.k # "str" \/ t.v \notin Types \/ i.k # "int" THEN {}
        ELSE IF i.v \in DOMAIN store[t.v] THEN {store[t.v][i.v]}
        ELSE IF i.v \in DOMAIN deleted[t.v] THEN {deleted[t.v][i.v]}
        ELSE {}

\* what C18 says is returned for a field that holds v: for a link the
\* entity it names with type, id and name alone (None when there is no such
\* entity), for a list its elements with the links among them as {type, id},
\* for another value the value
Copied(v) ==
    IF is_entity(v)
    THEN IF Target(v) = {} THEN PyNone
         ELSE LET e == CHOOSE x \in Target(v) : TRUE
              IN  PyDict([x \in {"type", "id"} \cup ({"name"} \cap DOMAIN e) |-> e[x]])
    ELSE IF v.k = "list"
    THEN PyList([i \in 1..Len(v.v) |->
                    IF is_entity(v.v[i])
                    THEN PyDict([type |-> v.v[i].v["type"], id |-> v.v[i].v["id"]])
                    ELSE v.v[i]])
    ELSE v

(***************************************************************************)
(* C18: every entity find and find_one return has the keys type and id and *)
(* those of the fields asked for that the record has, and no other; type   *)
(* and id are the record's; a field asked for that holds a link has the    *)
(* entity linked to with its type, id and name and nothing else of it; a   *)
(* field that holds a list has the list with its links as {type, id}; any  *)
(* other field has the record's value.                                     *)
(***************************************************************************)
C18_MinimalCopy ==
    last.op \in {"find", "find_one"} /\ last.err = ""
    => \A r \in Returned :
          LET rec == Source[r.v["id"].v]
          IN  /\ DOMAIN r.v = {"type", "id"} \cup (Asked \cap DOMAIN rec)
              /\ r.v["type"] = rec["type"]
              /\ r.v["id"] = rec["id"]
              /\ \A f \in (Asked \cap DOMAIN rec) \ {"type", "id"} :
                    r.v[f] = Copied(rec[f])

\* find for entity alone has returned a Task that has content too, with the
\* Shot it links to, which has a name and a code, as type, id and name
C18_Witness ==
    /\ last.op = "find"
    /\ last.args.fields = <<"entity">>
    /\ last.err = ""
    /\ \E r \in Returned :
          /\ "content" \in DOMAIN Source[r.v["id"].v]
          /\ DOMAIN r.v = {"type", "id", "entity"}
          /\ r.v["entity"] = PyDict([type |-> PyStr("Shot"), id |-> PyInt(1),
                                     name |-> PyStr("x")])
          /\ \E e \in Target(r.v["entity"]) : "code" \in DOMAIN e

\* the largest id of a map, 0 when it has none
MaxIdOf(m) == IF DOMAIN m = {} THEN 0 ELSE CHOOSE i \in DOMAIN m : \A j \in DOMAIN m : j <= i

\* the file has just been loaded
Loaded == last.op = "load" /\ dumped # NoDump /\ last.args.doc = dumped.doc

(***************************************************************************)
(* C19 (as stated): loading the file a dump wrote returns and leaves a     *)
(* live map equal to the one dumped, whatever the store held when the file *)
(* was loaded - dates, datetimes and strings included -, an empty retired  *)
(* map, and for each type the largest id loaded as its counter.            *)
(***************************************************************************)
C19_RoundTrip ==
    Loaded
    => /\ last.err = ""
       /\ store = dumped.of
       /\ \A t \in Types : deleted[t] = EmptyDict
       /\ \A t \in Types : ids[t] = MaxIdOf(store[t])

\* the values a load restores: datetimes with microseconds, dates, and the
\* other values but the strings that begin as a date does
Restorable(m) ==
    \A i \in DOMAIN m : \A f \in DOMAIN m[i] :
        /\ m[i][f].k = "datetime" => m[i][f].v % 2 = 1
        /\ m[i][f].k = "str" => ~DatePart(Chars(m[i][f].v))

\* the part of C19 the code keeps: the same for a dump of entities whose
\* values are all restorable; any other dump is refused or changed by load
C19_Restorable ==
    Loaded
    => IF \A t \in Types : Restorable(dumped.of[t])
       THEN /\ last.err = ""
            /\ store = dumped.of
            /\ \A t \in Types : deleted[t] = EmptyDict
            /\ \A t \in Types : ids[t] = MaxIdOf(store[t])
       ELSE last.err = "TypeError" \/ store # dumped.of

\* the parts local_field, LinkedType, remote_field of the deep-link fields
\* asked for; <<>> for a field that is not of that form
DeepParts(f) ==
    CASE f = "entity.Shot.code" -> <<"entity", "Shot", "code">>
      [] f = "entity.Task.code" -> <<"entity", "Task", "code">>
      [] f = "entity.Shot.parent" -> <<"entity", "Shot", "parent">>
      [] f = "entity.Shot.missing" -> <<"entity", "Shot", "missing">>
      [] f = "missing.Shot.code" -> <<"missing", "Shot", "code">>
      [] f = "content.Shot.code" -> <<"content", "Shot", "code">>
      [] OTHER -> <<>>

\* the deep-link fields the last find was asked for
AskedDeep == {f \in Asked : DeepParts(f) # <<>>}

\* the record has no field of the name of the deep-link field f itself
NoLiteral(rec, f) == f \notin DOMAIN rec

\* local_field of f is absent from the record
LocalAbsent(rec, f) == DeepParts(f)[1] \notin DOMAIN rec

\* local_field of f holds a link: a mapping with type and id
LocalLink(rec, f) == ~LocalAbsent(rec, f) /\ is_entity(rec[DeepParts(f)[1]])

\* local_field of f holds a link of type LinkedType
LinkMatches(rec, f) ==
    LocalLink(rec, f) /\ rec[DeepParts(f)[1]].v["type"] = PyStr(DeepParts(f)[2])

\* what the claim says find returns for f: remote_field of the entity
\* linked to, as find returns the value of a field
DeepValue(rec, f) ==
    LET e == CHOOSE x \in Target(rec[DeepParts(f)[1]]) : TRUE
    IN  Copied(IF DeepParts(f)[3] \in DOMAIN e THEN e[DeepParts(f)[3]] ELSE PyNone)

\* the values find has returned are those of the claim: remote_field of the
\* entity linked to when the link is of LinkedType, null when it is of
\* another type
DeepValues ==
    \A r \in Returned : \A f \in AskedDeep :
        LET rec == Source[r.v["id"].v]
        IN  NoLiteral(rec, f) /\ LocalLink(rec, f)
            => /\ f \in DOMAIN r.v
               /\ r.v[f] = IF LinkMatches(rec, f) THEN DeepValue(rec, f) ELSE PyNone

\* every field asked for is a deep-link field, and no record read has a
\* link of LinkedType to an entity that is neither live nor retired
DeepCovered ==
    /\ Asked = AskedDeep
    /\ \A i \in DOMAIN Source : \A f \in AskedDeep :
          LinkMatches(Source[i], f) => Target(Source[i][DeepParts(f)[1]]) # {}

(***************************************************************************)
(* C21: find asked for deep-link fields local_field.LinkedType.remote_field *)
(* returns, for a record whose local_field holds a link of LinkedType, the  *)
(* value of remote_field of the entity linked to, live or retired, and null *)
(* for a link of another type; it does not raise for a record whose         *)
(* local_field is absent or holds something that is not a link.             *)
(***************************************************************************)
C21_DeepLink ==
    last.op = "find" /\ DeepCovered
    => last.err = "" /\ DeepValues

\* local_field of f holds a mapping with type LinkedType and no id
NoIdLink(rec, f) ==
    /\ ~LocalAbsent(rec, f)
    /\ rec[DeepParts(f)[1]].k = "dict"
    /\ "type" \in DOMAIN rec[DeepParts(f)[1]].v
    /\ "id" \notin DOMAIN rec[DeepParts(f)[1]].v
    /\ rec[DeepParts(f)[1]].v["type"] = PyStr(DeepParts(f)[2])

\* C21 where no record read holds in local_field a mapping with the type
\* LinkedType and no id: find returns, with the values of the claim, and
\* without the field for a record whose local_field is absent, is no mapping
\* or is a mapping without a type
C21_DeepOnLinks ==
    /\ last.op = "find"
    /\ DeepCovered
    /\ \A i \in DOMAIN Source : \A f \in AskedDeep : ~NoIdLink(Source[i], f)
    => /\ last.err = ""
       /\ DeepValues
       /\ \A r \in Returned : \A f \in AskedDeep :
             LET rec == Source[r.v["id"].v]
                 local == DeepParts(f)[1]
             IN  /\ NoLiteral(rec, f)
                 /\ \/ LocalAbsent(rec, f)
                    \/ rec[local].k # "dict"
                    \/ "type" \notin DOMAIN rec[local].v
                 => f \notin DOMAIN r.v

\* find for entity.Shot.code has returned Task 1, which links to the retired
\* Shot 1, with the code of Shot 1
C21_DeepWitness ==
    /\ last.op = "find"
    /\ last.err = ""
    /\ last.args.fields = <<"entity.Shot.code">>
    /\ 1 \in DOMAIN deleted["Shot"] /\ 1 \notin DOMAIN store["Shot"]
    /\ DOMAIN store["Task"] = {1}
    /\ "entity" \in DOMAIN store["Task"][1]
    /\ store["Task"][1]["entity"] = Link("Shot", 1)
    /\ Len(last.ret.v) = 1
    /\ "entity.Shot.code" \in DOMAIN last.ret.v[1].v
    /\ last.ret.v[1].v["entity.Shot.code"] = PyStr("a")

\* find for the parent of the Shot linked to and for the code of a Task
\* linked to has returned a Task that links to Shot 2 with the parent of
\* Shot 2 as a reference to Shot 1 and with null for the other field
C21_ParentWitness ==
    /\ last.op = "find"
    /\ last.err = ""
    /\ last.args.fields = <<"entity.Shot.parent", "entity.Task.code">>
    /\ Len(last.ret.v) = 1
    /\ "entity.Shot.parent" \in DOMAIN last.ret.v[1].v
    /\ last.ret.v[1].v["entity.Shot.parent"] = Link("Shot", 1)
    /\ last.ret.v[1].v["entity.Task.code"] = PyNone

\* find has raised because a Task holds a mapping with type Shot and no id
C21_MalformedRaises ==
    /\ last.op = "find"
    /\ last.err = "ShotgunError"
    /\ last.args.fields = <<"entity.Shot.code">>
    /\ \E i \in DOMAIN store["Task"] : NoIdLink(store["Task"][i], "entity.Shot.code")

\* the (type, id) pairs held in both the live and the retired map
InBoth ==
    UNION {{<<t, i>> : i \in DOMAIN store[t] \cap DOMAIN deleted[t]} : t \in Types}

\* the requests of a batch that create an entity with an id of the caller
ReusingRequests(requests) ==
    {k \in 1..Len(requests) :
        /\ requests[k].k = "dict"
        /\ {"request_type", "entity_type", "data"} \subseteq DOMAIN requests[k].v
        /\ requests[k].v["request_type"] = PyStr("create")
        /\ requests[k].v["data"].k = "dict"
        /\ "id" \in DOMAIN requests[k].v["data"].v}

(***************************************************************************)
(* C22: in every state reached by create, with or without an id of the     *)
(* caller, update, delete, revive and batch, no type and id are held in    *)
(* both the live map and the retired map.                                  *)
(***************************************************************************)
C22_Disjoint ==
    \A t \in Types : DOMAIN store[t] \cap DOMAIN deleted[t] = {}

\* C22 but for the create that names an id: a step after which a type and id
\* are in both maps, and were not before, is a create whose data names that
\* id, retired at the time, or a batch with a create that names an id; and
\* a delete or a revive of an id that is in one map only leaves every other
\* record of both maps as it was
C22_OnlyByCreate ==
    [][/\ InBoth' # InBoth /\ InBoth' \ InBoth # {}
          => \/ /\ last'.op = "create"
                /\ "id" \in DOMAIN last'.args.data
                /\ HasId(deleted[last'.args.entity_type], last'.args.data["id"])
                /\ InBoth' \ InBoth =
                       {<<last'.args.entity_type, last'.args.data["id"].v>>}
             \/ /\ last'.op = "batch"
                /\ ReusingRequests(last'.args.requests) # {}
       /\ last'.op \in {"delete", "revive"} /\ last = Idle
              /\ <<last'.args.entity_type, last'.args.entity_id>> \notin InBoth
          => \A t \in Types :
                \A i \in (DOMAIN store[t] \cup DOMAIN deleted[t]) :
                    LET held(s, d) == IF i \in DOMAIN s THEN s[i] ELSE d[i]
                    IN  /\ i \in DOMAIN store'[t] \cup DOMAIN deleted'[t]
                        /\ held(store'[t], deleted'[t]) = held(store[t], deleted[t])
      ]_vars

\* the records held under type t and id i, in the live and the retired map
HeldAt(t, i) ==
    (IF i \in DOMAIN store[t] THEN {store[t][i]} ELSE {}) \cup
    (IF i \in DOMAIN deleted[t] THEN {deleted[t][i]} ELSE {})

\* the keys under which a map of type t holds a record
HeldKeys(t) == DOMAIN store[t] \cup DOMAIN deleted[t]

(***************************************************************************)
(* C23: in every state reached by create, update, delete, revive and batch *)
(* with data that may name the fields type and id, every record held under *)
(* type T and id i, live or retired, has T in its field type and i in its  *)
(* field id.                                                               *)
(***************************************************************************)
C23_Identity ==
    \A t \in Types : \A i \in HeldKeys(t) : \A rec \in HeldAt(t, i) :
        /\ {"type", "id"} \subseteq DOMAIN rec
        /\ rec["type"] = PyStr(t)
        /\ rec["id"] = PyInt(i)

\* the values the data of the calls give the field type
TypesNamed ==
    {d["type"] : d \in {x \in IdentityData \cup IdentityUpdates : "type" \in DOMAIN x}}

\* the types and ids under which a record is held whose field type is not
\* the type it is held under
Mistyped ==
    UNION {{<<t, i>> : i \in {x \in HeldKeys(t) :
                                \E rec \in HeldAt(t, x) : rec["type"] # PyStr(t)}} :
           t \in Types}

\* C23 of the field id, and of the field type but for the data that name it:
\* every record held under T and i has the fields type and id, i in id, and
\* in type T or a value that the data of a call gave the field
C23_IdKept ==
    \A t \in Types : \A i \in HeldKeys(t) : \A rec \in HeldAt(t, i) :
        /\ {"type", "id"} \subseteq DOMAIN rec
        /\ rec["id"] = PyInt(i)
        /\ rec["type"] \in {PyStr(t)} \cup TypesNamed

\* a step after which a record has in its field type another type than the
\* one it is held under, and before which none at its type and id had, is a
\* create or an update whose data name the field type, or a batch
C23_TypeByData ==
    [][Mistyped' \ Mistyped # {}
       => \/ last'.op \in {"create", "update"} /\ "type" \in DOMAIN last'.args.data
          \/ last'.op = "batch"]_vars

\* an update whose data name the id 2 and the type Shot has left the Shot 1
\* with its id and type
C23_IdWitness ==
    /\ last.op = "update"
    /\ last.err = ""
    /\ last.args.entity_type = "Shot"
    /\ last.args.entity_id = 1
    /\ last.args.data = [id |-> PyInt(2), type |-> PyStr("Shot")]
    /\ store["Shot"][1]["id"] = PyInt(1)

\* the limits within 1..500 that find is given
InRange == {L \in Limits : 1 <= L /\ L <= LimitCap}

\* the ids of the Shots find returns for filter F, limit L and a page
PageIds(F, L, page) == RetIds(find(Db, "Shot", F, <<>>, L, FALSE, page).ret)

\* the ids find returns for the pages from..to, one page after the other
RECURSIVE PagesIds(_, _, _, _)
PagesIds(F, L, from, to) ==
    IF from > to THEN <<>>
    ELSE PageIds(F, L, from) \o PagesIds(F, L, from + 1, to)

\* the number of pages of L records that n records fill
PageCount(n, L) == (n + L - 1) \div L

Again ==
    IF last.op = "find"
    THEN find(Db, last.args.entity_type, last.args.filters, last.args.fields,
              last.args.limit, last.args.retired_only, last.args.page)
    ELSE find_one(Db, last.args.entity_type, last.args.filters, last.args.fields,
                  last.args.retired_only)

(***************************************************************************)
(* C25: a call of find or find_one, whether it returns entities, returns   *)
(* none or raises, leaves every record of the live and the retired map,    *)
(* with all its fields, and every id counter as they were (the call has   *)
(* left the database it was made on, and made again it leaves it again),   *)
(* and the same call made again with no write in between gives the same    *)
(* result.                                                                 *)
(***************************************************************************)
C25_ReadOnly ==
    last.op \in {"find", "find_one"}
    => /\ ~last.changed
       /\ Again.db = Db
       /\ Again.ret = last.ret
       /\ Again.err = last.err

\* find_one has returned a live Shot that was stamped before the clock
\* moved, and the Shot has the stamp it had
C25_Witness ==
    /\ last.op = "find_one"
    /\ ~last.args.retired_only
    /\ last.err = ""
    /\ last.ret # PyNone
    /\ now = 1
    /\ last.ret.v["updated_at"] = PyDateTime(0)
    /\ store["Shot"][last.ret.v["id"].v]["updated_at"] = PyDateTime(0)

\* find has raised on a filter whose predicate raises on a Shot without a
\* code, with a live and a retired Shot held
C25_FailedWitness ==
    /\ last.op = "find"
    /\ last.err = "AttributeError"
    /\ store["Shot"] # EmptyDict
    /\ deleted["Shot"] # EmptyDict

\* find has returned no entity for a filter that no live Shot matches
C25_NothingWitness ==
    /\ last.op = "find"
    /\ last.err = ""
    /\ last.ret = PyList(<<>>)
    /\ store["Shot"] # EmptyDict

============================================================================
